---- MODULE Spec2Model ----
(***************************************************************************)
(* docker-hostmanager: the event-driven synchronizer (src/synchronizer.rs), *)
(* the hostname derivation (src/types.rs) and the start-up sequence         *)
(* (src/main.rs), as a state machine.                                       *)
(*                                                                          *)
(* Text.  A Rust String is a sequence of atoms.  An atom is one character   *)
(* ("a", "_", ":", " ", "\n", ...) or an opaque word that holds characters  *)
(* found in no other atom (a marker tag, an IP address, a foreign line of   *)
(* the hosts file), so two strings are equal exactly when their sequences   *)
(* are.                                                                     *)
(***************************************************************************)
EXTENDS Integers, Sequences, FiniteSets, TLC

NL == "\n"
CR == "\r"
SP == " "

START_TAG == <<"## docker-hostmanager-start">>
END_TAG == <<"## docker-hostmanager-end">>

(* Option<T> *)
None == [some |-> FALSE, val |-> <<>>]
Some(v) == [some |-> TRUE, val |-> v]

Range(s) == {s[i] : i \in 1..Len(s)}

(* ------------------------------------------------------------------ *)
(* str helpers                                                        *)
(* ------------------------------------------------------------------ *)

IsWhitespace(a) == a \in {SP, CR, NL, "\t"}

RECURSIVE TrimStart(_)
TrimStart(s) ==
    IF s # <<>> /\ IsWhitespace(Head(s)) THEN TrimStart(Tail(s)) ELSE s

RECURSIVE TrimEnd(_)
TrimEnd(s) ==
    IF s # <<>> /\ IsWhitespace(s[Len(s)])
    THEN TrimEnd(SubSeq(s, 1, Len(s) - 1))
    ELSE s

(* str::trim *)
Trim(s) == TrimEnd(TrimStart(s))

(* str::ends_with *)
EndsWith(s, suffix) ==
    /\ Len(suffix) <= Len(s)
    /\ SubSeq(s, Len(s) - Len(suffix) + 1, Len(s)) = suffix

(* str::strip_prefix: Some(rest) or None *)
StripPrefix(s, prefix) ==
    IF Len(prefix) <= Len(s) /\ SubSeq(s, 1, Len(prefix)) = prefix
    THEN Some(SubSeq(s, Len(prefix) + 1, Len(s)))
    ELSE None

(* index of the first atom of s equal to a, 0 when there is none *)
RECURSIVE IndexFrom(_, _, _)
IndexFrom(s, a, i) ==
    IF i > Len(s) THEN 0
    ELSE IF s[i] = a THEN i
    ELSE IndexFrom(s, a, i + 1)

(* str::split(sep): the pieces between the separators, in order *)
RECURSIVE SplitOn(_, _, _, _)
SplitOn(s, sep, cur, acc) ==
    IF s = <<>> THEN Append(acc, cur)
    ELSE IF Head(s) = sep THEN SplitOn(Tail(s), sep, <<>>, Append(acc, cur))
    ELSE SplitOn(Tail(s), sep, Append(cur, Head(s)), acc)

(* str::lines: split at "\n"; a line's final "\r" goes with its "\n"; the
   last line needs no terminator and an empty last piece is no line *)
RECURSIVE SplitLines(_, _, _)
SplitLines(content, cur, acc) ==
    IF content = <<>>
    THEN IF cur = <<>> THEN acc ELSE Append(acc, cur)
    ELSE IF Head(content) = NL
    THEN SplitLines(Tail(content), <<>>,
            Append(acc, IF cur # <<>> /\ cur[Len(cur)] = CR
                        THEN SubSeq(cur, 1, Len(cur) - 1)
                        ELSE cur))
    ELSE SplitLines(Tail(content), Append(cur, Head(content)), acc)

Lines(content) == SplitLines(content, <<>>, <<>>)

(* [String]::join(sep) *)
RECURSIVE JoinWith(_, _)
JoinWith(items, sep) ==
    IF items = <<>> THEN <<>>
    ELSE IF Len(items) = 1 THEN items[1]
    ELSE items[1] \o sep \o JoinWith(Tail(items), sep)

(* Iterator::position over the trimmed lines, 0 for None *)
RECURSIVE PositionFrom(_, _, _)
PositionFrom(lines, tag, i) ==
    IF i > Len(lines) THEN 0
    ELSE IF Trim(lines[i]) = tag THEN i
    ELSE PositionFrom(lines, tag, i + 1)

Position(lines, tag) == PositionFrom(lines, tag, 1)

(* ------------------------------------------------------------------ *)
(* types.rs: ContainerInfo, NetworkInfo                                *)
(*   ContainerInfo = [id, name, ip_address : Option, networks,         *)
(*                    domain_names, running]                           *)
(*   networks : the HashMap<String, NetworkInfo> as the sequence of    *)
(*   its entries [name, ip_address, aliases] in the map's iteration    *)
(*   order (keys unique)                                               *)
(* ------------------------------------------------------------------ *)

has_exposed_ports_not_running(info) ==
    info.ip_address.some \/ info.networks # <<>>

has_exposed_ports(info) ==
    info.running /\ (info.ip_address.some \/ info.networks # <<>>)

(* lines 50-62 with a network matched as soon as its name ends with net *)
DomainHostsAnySuffix(info, network_name, domain) ==
    LET colon == IndexFrom(domain, ":", 1) IN
    IF colon > 0
    THEN LET net == SubSeq(domain, 1, colon - 1)
             hostname == SubSeq(domain, colon + 1, Len(domain))
         IN  IF EndsWith(network_name, net) THEN <<hostname>> ELSE <<>>
    ELSE IF ~info.ip_address.some THEN <<domain>> ELSE <<>>

(* lines 50-62 with a token without a colon added whether or not the record
   has a global address *)
DomainHostsBareAlways(info, network_name, domain) ==
    LET colon == IndexFrom(domain, ":", 1) IN
    IF colon > 0
    THEN LET net == SubSeq(domain, 1, colon - 1)
             hostname == SubSeq(domain, colon + 1, Len(domain))
             matches == \/ network_name = net
                        \/ EndsWith(network_name, <<"_">> \o net)
                        \/ EndsWith(network_name, <<"-">> \o net)
         IN  IF matches THEN <<hostname>> ELSE <<>>
    ELSE <<domain>>

(* the hostnames one domain entry adds to the group of network_name *)
DomainHosts(info, network_name, domain) ==
    LET colon == IndexFrom(domain, ":", 1) IN
    IF colon > 0
    THEN LET net == SubSeq(domain, 1, colon - 1)
             hostname == SubSeq(domain, colon + 1, Len(domain))
             matches == \/ network_name = net
                        \/ EndsWith(network_name, <<"_">> \o net)
                        \/ EndsWith(network_name, <<"-">> \o net)
         IN  IF matches THEN <<hostname>> ELSE <<>>
    ELSE IF ~info.ip_address.some THEN <<domain>> ELSE <<>>

RECURSIVE AllDomainHosts(_, _, _)
AllDomainHosts(info, network_name, domains) ==
    IF domains = <<>> THEN <<>>
    ELSE DomainHosts(info, network_name, Head(domains))
            \o AllDomainHosts(info, network_name, Tail(domains))

(* lines 37-62 without the push of line 40 *)
NetworkHostsNoName(info, network) ==
    [i \in 1..Len(network.aliases) |->
            network.aliases[i] \o <<".">> \o network.name]
        \o AllDomainHosts(info, network.name, info.domain_names)

NetworkHosts(info, network) ==
    <<info.name \o <<".">> \o network.name>>
        \o [i \in 1..Len(network.aliases) |->
                network.aliases[i] \o <<".">> \o network.name]
        \o AllDomainHosts(info, network.name, info.domain_names)

RECURSIVE NetworkGroups(_, _)
NetworkGroups(info, networks) ==
    IF networks = <<>> THEN <<>>
    ELSE LET hosts == NetworkHosts(info, Head(networks)) IN
         (IF hosts # <<>> THEN << <<Head(networks).ip_address, hosts>> >> ELSE <<>>)
            \o NetworkGroups(info, Tail(networks))

(* get_hostnames with only the tokens without a colon in the group of the
   global address *)
get_hostnames_bare_tokens(info, tld) ==
    LET bare(domain) == IndexFrom(domain, ":", 1) = 0 IN
    (IF info.ip_address.some
     THEN << <<info.ip_address.val,
               <<info.name \o tld>> \o SelectSeq(info.domain_names, bare)>> >>
     ELSE <<>>)
        \o NetworkGroups(info, info.networks)

(* ContainerInfo::get_hostnames: the sequence of <<ip, hosts>> *)
get_hostnames(info, tld) ==
    (IF info.ip_address.some
     THEN << <<info.ip_address.val, <<info.name \o tld>> \o info.domain_names>> >>
     ELSE <<>>)
        \o NetworkGroups(info, info.networks)

(* ------------------------------------------------------------------ *)
(* synchronizer.rs: extract_container_info                             *)
(*   container = [id, name, state, network_settings, config], every    *)
(*   field an Option as in ContainerInspectResponse:                   *)
(*     state.val = [running : Option(BOOLEAN)]                         *)
(*     network_settings.val = [ports : Option(Nat), networks :         *)
(*        Option(sequence of [name, ip_address : Option, aliases :     *)
(*        Option])]   (the response's map, in the order it is iterated)*)
(*     config.val = [env : Option(sequence of strings),                *)
(*                   labels : Option(Option(string))]  (the value of   *)
(*        the "dev.orbstack.domains" label, if the map has one)        *)
(* ------------------------------------------------------------------ *)

DOMAIN_NAME_PREFIX == <<"DOMAIN_NAME=">>

RECURSIVE TrimStartMatches(_, _)
TrimStartMatches(s, a) ==
    IF s # <<>> /\ Head(s) = a THEN TrimStartMatches(Tail(s), a) ELSE s

RECURSIVE TrimmedNonEmpty(_)
TrimmedNonEmpty(pieces) ==
    IF pieces = <<>> THEN <<>>
    ELSE (IF Trim(Head(pieces)) # <<>> THEN <<Trim(Head(pieces))>> ELSE <<>>)
            \o TrimmedNonEmpty(Tail(pieces))

(* value.split(',').map(trim).filter(non-empty) *)
SplitDomains(value) == TrimmedNonEmpty(SplitOn(value, ",", <<>>, <<>>))

RECURSIVE EnvDomains(_)
EnvDomains(env_vars) ==
    IF env_vars = <<>> THEN <<>>
    ELSE LET domain_value == StripPrefix(Head(env_vars), DOMAIN_NAME_PREFIX) IN
         (IF domain_value.some THEN SplitDomains(domain_value.val) ELSE <<>>)
            \o EnvDomains(Tail(env_vars))

ConfigDomains(config) ==
    IF ~config.some THEN <<>>
    ELSE (IF config.val.env.some THEN EnvDomains(config.val.env.val) ELSE <<>>)
         \o (IF config.val.labels.some /\ config.val.labels.val.some
             THEN SplitDomains(config.val.labels.val.val)
             ELSE <<>>)

AliasesNoName(network, name) ==
    IF network.aliases.some THEN network.aliases.val ELSE <<>>

AliasesWithName(network, name) ==
    LET aliases == IF network.aliases.some THEN network.aliases.val ELSE <<>> IN
    IF name \notin Range(aliases) THEN Append(aliases, name) ELSE aliases

RECURSIVE ExtractNetworks(_, _)
ExtractNetworks(nets, name) ==
    IF nets = <<>> THEN <<>>
    ELSE LET network == Head(nets) IN
         (IF network.ip_address.some /\ network.ip_address.val # <<>>
          THEN <<[name |-> network.name,
                  ip_address |-> network.ip_address.val,
                  aliases |-> AliasesWithName(network, name)]>>
          ELSE <<>>)
            \o ExtractNetworks(Tail(nets), name)

(* Option<ContainerInfo> *)
extract_container_info(container) ==
    IF \/ ~container.id.some
       \/ ~container.name.some
       \/ ~container.state.some
       \/ ~container.network_settings.some
    THEN None
    ELSE LET name == TrimStartMatches(container.name.val, "/")
             running == IF container.state.val.running.some
                        THEN container.state.val.running.val
                        ELSE FALSE
             settings == container.network_settings.val
             has_ports == settings.ports.some /\ settings.ports.val > 0
         IN  IF ~has_ports /\ ~running THEN None
             ELSE Some([id |-> container.id.val,
                        name |-> name,
                        ip_address |-> None,
                        networks |-> IF settings.networks.some
                                     THEN ExtractNetworks(settings.networks.val, name)
                                     ELSE <<>>,
                        domain_names |-> ConfigDomains(container.config),
                        running |-> running])

(* ------------------------------------------------------------------ *)
(* synchronizer.rs: write_hosts_file_immediate, the text part          *)
(*   active : the HashMap active_containers as the sequence of its     *)
(*   entries [key, info] in the map's iteration order (keys unique)    *)
(* ------------------------------------------------------------------ *)

RECURSIVE GroupLines(_)
GroupLines(hostnames) ==
    IF hostnames = <<>> THEN <<>>
    ELSE LET ip == Head(hostnames)[1]
             hosts == Head(hostnames)[2]
         IN  (IF hosts # <<>>
              THEN <<ip \o <<SP>> \o JoinWith(hosts, <<SP>>)>>
              ELSE <<>>)
                \o GroupLines(Tail(hostnames))

(* lines 306-320 *)
RECURSIVE host_entries(_, _)
host_entries(active, tld) ==
    IF active = <<>> THEN <<>>
    ELSE GroupLines(get_hostnames(Head(active).info, tld))
            \o host_entries(Tail(active), tld)

ManagedSection(entries) ==
    IF entries # <<>> THEN <<START_TAG>> \o entries \o <<END_TAG>> ELSE <<>>

(* lines 370-387 with the slice after the end marker taken one line early *)
ReplaceSectionKeepEnd(lines, start, end, entries) ==
    SubSeq(lines, 1, start - 1)
        \o ManagedSection(entries)
        \o SubSeq(lines, end, Len(lines))

(* lines 370-387; start and end are 1-based here *)
ReplaceSection(lines, start, end, entries) ==
    SubSeq(lines, 1, start - 1)
        \o ManagedSection(entries)
        \o (IF end + 1 <= Len(lines) THEN SubSeq(lines, end + 1, Len(lines)) ELSE <<>>)

(* lines 391-404 with the blank line pushed whatever the last line is *)
AppendSectionAlwaysBlank(lines, entries) ==
    lines
        \o (IF entries # <<>>
            THEN << <<>> >> \o <<START_TAG>> \o entries \o <<END_TAG>>
            ELSE <<>>)

(* lines 391-404 *)
AppendSection(lines, entries) ==
    lines
        \o (IF entries # <<>>
            THEN (IF lines # <<>> /\ lines[Len(lines)] # <<>> THEN << <<>> >> ELSE <<>>)
                    \o <<START_TAG>> \o entries \o <<END_TAG>>
            ELSE <<>>)

(* lines 358-406 *)
new_lines(content, entries) ==
    LET lines == Lines(content)
        start_idx == Position(lines, START_TAG)
        end_idx == Position(lines, END_TAG)
    IN  IF start_idx > 0 /\ end_idx > 0 /\ start_idx < end_idx
        THEN ReplaceSection(lines, start_idx, end_idx, entries)
        ELSE AppendSection(lines, entries)

(* line 408 *)
new_content(content, entries) ==
    JoinWith(new_lines(content, entries), <<NL>>) \o <<NL>>

(* ------------------------------------------------------------------ *)
(* HashMap<String, ContainerInfo> as a sequence of entries             *)
(* ------------------------------------------------------------------ *)

Keys(active) == {active[i].key : i \in 1..Len(active)}

ContainsKey(active, key) == key \in Keys(active)

(* HashMap::get, cloned *)
MapGet(active, key) ==
    IF ContainsKey(active, key)
    THEN Some((CHOOSE e \in Range(active) : e.key = key).info)
    ELSE None

(* an insert that leaves the value of a present key as it is
   (entry(key).or_insert(info)) *)
MapInsertKeepOld(active, key, info, pos) ==
    IF ContainsKey(active, key)
    THEN active
    ELSE SubSeq(active, 1, pos - 1)
            \o <<[key |-> key, info |-> info]>>
            \o SubSeq(active, pos, Len(active))

(* HashMap::insert: the value of a present key is replaced where it is;
   a new key takes the place pos the hasher gives it *)
MapInsert(active, key, info, pos) ==
    IF ContainsKey(active, key)
    THEN [i \in 1..Len(active) |->
            IF active[i].key = key THEN [key |-> key, info |-> info] ELSE active[i]]
    ELSE SubSeq(active, 1, pos - 1)
            \o <<[key |-> key, info |-> info]>>
            \o SubSeq(active, pos, Len(active))

(* remove with the test on the key inverted *)
MapRemoveOthers(active, key) ==
    LET keep(e) == e.key = key IN SelectSeq(active, keep)

(* HashMap::remove *)
MapRemove(active, key) ==
    LET keep(e) == e.key # key IN SelectSeq(active, keep)

(* ------------------------------------------------------------------ *)
(* Bounds and the runtime the model runs against                       *)
(* ------------------------------------------------------------------ *)

(* runtime changes and stream items the runtime produces in one run *)
MaxRtSteps == 2

(* the debounce window, in clock ticks *)
debounce_ms == 2

IdA == <<"c1">>
IdB == <<"c2">>
Ids == {IdA, IdB}

NetD == <<"d">>
NetPD == <<"p", "_", "d">>
Networks == {NetD, NetPD}

tld == <<".", "t">>

(* what the runtime reports for a container besides its state *)
RtName(id) == IF id = IdA THEN <<"/", "w">> ELSE <<"/", "b">>

RtPorts(id) == IF id = IdA THEN Some(1) ELSE None

RtAliases(id, net) ==
    IF id = IdA THEN Some(<< <<"a">> >>) ELSE None

RtConfig(id) ==
    IF id = IdA
    THEN Some([env |-> Some(<< <<"PATH=", "/">>,
                               <<"DOMAIN_NAME=", "x", ",", SP, "d", ":", "y">> >>),
               labels |-> Some(None)])
    ELSE Some([env |-> None, labels |-> Some(Some(<<"z">>))])

RtAddress(id, net) ==
    IF id = IdA
    THEN (IF net = NetD THEN <<"10.0.0.1">> ELSE <<"10.0.1.1">>)
    ELSE (IF net = NetD THEN <<"10.0.0.2">> ELSE <<"10.0.1.2">>)

Perms(S) ==
    {p \in [1..Cardinality(S) -> S] : \A i, j \in 1..Cardinality(S) : p[i] = p[j] => i = j}

(* the networks a container can be attached to, running or not *)
NetsOf(id) == Networks

(* the action strings the runtime gives the events of a kind *)
ActionsOf(kind) ==
    CASE kind = "started" -> {Some(<<"start">>), Some(<<"unpause">>)}
      [] kind = "stopped" -> {Some(<<"die">>), Some(<<"stop">>), Some(<<"kill">>),
                              Some(<<"pause">>), Some(<<"destroy">>)}
      [] kind = "connected" -> {Some(<<"connect">>)}
      [] kind = "disconnected" -> {Some(<<"disconnect">>)}
      [] OTHER -> {Some(<<"create">>), Some(<<"exec_start">>), Some(<<>>), None}

VARIABLES
    rt,                 \* runtime: id -> [running, nets : net -> "none" | "noip" | "ip"]
    rt_steps,           \* runtime changes and stream items so far
    events,             \* the subscribed event stream: items not yet taken,
                        \*   [ok, kind, actor_id]; the action string of an item
                        \*   is one of ActionsOf(kind), fixed when it is read
    phase,              \* main: "start" | "sync" | "synced" | "listening" | "exited"
    exit_cause,         \* why main returned, "" while it runs
    sync_todo,          \* synchronize: the listed ids not yet inspected
    active_containers,  \* the State Store
    lock,               \* holder of the store's Mutex: "none" | "events" |
                        \*   "write" (write_hosts_file_immediate)
    hpc,                \* listen_events' event loop: "next" | "inspect" |
                        \*   "insert" | "remove" | "signal"
    cur,                \* the event being handled: [actor_id, info]
    write_notify,       \* Notify: a notification is pending
    wpc,                \* process_pending_writes: "idle" | "debounce" |
                        \*   "writing" (inside write_hosts_file_immediate)
    timer,              \* ticks left of the debounce sleep
    since_schedule,     \* ticks since the last schedule_write, capped at debounce_ms
    lagged,             \* a tick passed while the task had a step ready
    hosts_file,         \* content of the hosts file
    write_enabled,
    \* history, read by the properties only
    hosts_file0,        \* the hosts file as the program found it
    fs_touched,         \* fs::read_to_string or fs::write has been called
    last_write,         \* the last write_hosts_file_immediate: [kind, gap, ok,
                        \*   signalled]; signalled: schedule_write has been
                        \*   called since that write
    burst_writes,       \* debounced writes since the first call of the current
                        \*   burst (calls less than debounce_ms apart); -1
                        \*   before the first call and when the burst began
                        \*   while a write was still owed
    handled,            \* the event handled last, and what its handling did
    patch,              \* SpecPatch: [writes, prev_file, store, repeat]: the
                        \*   writes applied, the file and the store the last one
                        \*   read, and whether the write before read that store
    sync_log,           \* synchronize, until listen_events starts: [listed,
                        \*   inspected, held]: the non-empty ids list_containers
                        \*   returned, for each id inspected [id, ok, info], and
                        \*   the keys the store held when the resync began
    probe               \* one record taken through extract_container_info and
                        \*   get_hostnames on its own: [stage, response, info,
                        \*   groups]

prog_vars_but_probe ==
    <<phase, exit_cause, sync_todo, active_containers, lock, hpc, cur,
      write_notify, wpc, timer, since_schedule, lagged, hosts_file,
      write_enabled, hosts_file0, fs_touched, last_write, burst_writes,
      handled, patch, sync_log>>

prog_vars == <<prog_vars_but_probe, probe>>

rt_vars == <<rt, rt_steps, events>>

LOCALHOST == <<"127.0.0.1 localhost">>
SERVER == <<"192.168.1.1 server">>
OLD_ENTRY == <<"172.17.0.2 old.container">>

InitFiles ==
    { LOCALHOST \o <<NL>>,
      LOCALHOST \o <<NL>> \o START_TAG \o <<NL>> \o OLD_ENTRY \o <<NL>>
        \o END_TAG \o <<NL>> \o SERVER \o <<NL>> }

NoEvent == [actor_id |-> <<>>, info |-> None]

(* the runtime as the program may find it *)
InitRuntimes ==
    {r \in [Ids -> [running : BOOLEAN, nets : [Networks -> {"none", "noip", "ip"}]]] :
        /\ r[IdA].nets \in {[n \in Networks |-> "ip"],
                            [n \in Networks |-> IF n = NetD THEN "noip" ELSE "none"]}
        /\ r[IdB].nets = [n \in Networks |-> IF n = NetD THEN "ip" ELSE "none"]}

(* ------------------------------------------------------------------ *)
(* The runtime (bollard::Docker) at the boundary the program uses      *)
(* ------------------------------------------------------------------ *)

Attached(id) == {n \in Networks : rt[id].nets[n] # "none"}

(* docker.inspect_container(id): the networks map iterated in order *)
InspectResponse(id, order) ==
    [id |-> Some(id),
     name |-> Some(RtName(id)),
     state |-> Some([running |-> Some(rt[id].running)]),
     network_settings |->
        Some([ports |-> RtPorts(id),
              networks |->
                Some([i \in 1..Len(order) |->
                        [name |-> order[i],
                         ip_address |-> IF rt[id].nets[order[i]] = "ip"
                                        THEN Some(RtAddress(id, order[i]))
                                        ELSE Some(<<>>),
                         aliases |-> RtAliases(id, order[i])]])]),
     config |-> RtConfig(id)]

(* the runtime reports the container running with a network attachment
   that has a non-empty address *)
RtEligible(id) ==
    rt[id].running /\ \E n \in Networks : rt[id].nets[n] = "ip"

OkEvent(kind, actor_id) ==
    [ok |-> TRUE, kind |-> kind, actor_id |-> actor_id]

ErrItem == [ok |-> FALSE, kind |-> "other", actor_id |-> None]

(* an item reaches the stream whether or not synchronize has returned *)
EmitAlways(item) ==
    events' = Append(events, item)

(* an item reaches the stream only once the program has subscribed *)
Emit(item) ==
    events' = IF phase = "listening" THEN Append(events, item) ELSE events

RtStep ==
    /\ phase # "exited"
    /\ rt_steps < MaxRtSteps
    /\ rt_steps' = rt_steps + 1

RtStart(id) ==
    /\ RtStep
    /\ ~rt[id].running
    /\ rt' = [rt EXCEPT ![id].running = TRUE]
    /\ Emit(OkEvent("started", Some(id)))
    /\ UNCHANGED prog_vars

RtStop(id) ==
    /\ RtStep
    /\ rt[id].running
    /\ rt' = [rt EXCEPT ![id].running = FALSE]
    /\ Emit(OkEvent("stopped", Some(id)))
    /\ UNCHANGED prog_vars

RtConnect(id, net) ==
    /\ RtStep
    /\ net \in NetsOf(id)
    /\ rt[id].nets[net] = "none"
    /\ \E a \in {"noip", "ip"} : rt' = [rt EXCEPT ![id].nets[net] = a]
    /\ Emit(OkEvent("connected", Some(id)))
    /\ UNCHANGED prog_vars

RtDisconnect(id, net) ==
    /\ RtStep
    /\ rt[id].nets[net] # "none"
    /\ rt' = [rt EXCEPT ![id].nets[net] = "none"]
    /\ Emit(OkEvent("disconnected", Some(id)))
    /\ UNCHANGED prog_vars

(* an event whose action is outside the table or missing, or one that names
   no actor *)
RtOther ==
    /\ RtStep
    /\ phase = "listening"
    /\ \E item \in {OkEvent("other", Some(IdA)),
                    OkEvent("started", None),
                    OkEvent("stopped", Some(<<>>))} :
            Emit(item)
    /\ UNCHANGED <<rt, prog_vars>>

(* the stream yields Err *)
RtStreamError ==
    /\ RtStep
    /\ phase = "listening"
    /\ Emit(ErrItem)
    /\ UNCHANGED <<rt, prog_vars>>

vars == <<rt, rt_steps, events, phase, exit_cause, sync_todo, active_containers,
          lock, hpc, cur, write_notify, wpc, timer, since_schedule, lagged,
          hosts_file, write_enabled, hosts_file0, fs_touched, last_write,
          burst_writes, handled, patch, sync_log,
                   probe>>

(* ------------------------------------------------------------------ *)
(* synchronizer.rs: write_hosts_file_immediate                         *)
(*   io: what the file system does: "ok", "read_err" (read_to_string   *)
(*   fails), "write_err" (fs::write fails before it truncates),        *)
(*   "write_torn" (fs::write fails after File::create truncated)       *)
(* ------------------------------------------------------------------ *)

IoOutcomes == {"ok", "read_err", "write_err", "write_torn"}

(* the function without the early return of lines 345-353 *)
WriteAlways(content, active, enabled, io) ==
    IF io = "ok"
    THEN [ok |-> TRUE, file |-> new_content(content, host_entries(active, tld)),
          fs |-> TRUE]
    ELSE [ok |-> FALSE, file |-> IF io = "write_torn" THEN <<>> ELSE content,
          fs |-> TRUE]

(* [ok : the Result is Ok, file : the content left, fs : the file was accessed] *)
write_hosts_file_immediate(content, active, enabled, io) ==
    IF ~enabled
    THEN [ok |-> TRUE, file |-> content, fs |-> FALSE]
    ELSE IF io = "ok"
    THEN [ok |-> TRUE, file |-> new_content(content, host_entries(active, tld)),
          fs |-> TRUE]
    ELSE [ok |-> FALSE, file |-> IF io = "write_torn" THEN <<>> ELSE content,
          fs |-> TRUE]

NoHandled ==
    [class |-> "none", action |-> <<>>, actor_id |-> <<>>, info |-> None,
     had_record |-> FALSE, old |-> None, calls |-> 0, signal_lock |-> "none"]

NoSyncLog == [listed |-> <<>>, inspected |-> <<>>, held |-> {}]

NoProbe == [stage |-> "start", response |-> None, info |-> None, groups |-> <<>>]

NoPatch == [writes |-> 0, prev_file |-> <<>>, store |-> <<>>, repeat |-> FALSE]

(* the state after Synchronizer::new (lines 31-47) over one of the files *)
InitOver(files) ==
    /\ rt \in InitRuntimes
    /\ rt_steps = 0
    /\ events = <<>>
    /\ phase = "start"
    /\ exit_cause = ""
    /\ sync_todo = <<>>
    /\ active_containers = <<>>
    /\ lock = "none"
    /\ hpc = "next"
    /\ cur = NoEvent
    /\ write_notify = FALSE
    /\ wpc = "idle"
    /\ timer = 0
    /\ since_schedule = debounce_ms
    /\ lagged = FALSE
    /\ hosts_file \in files
    /\ write_enabled \in BOOLEAN
    /\ hosts_file0 = hosts_file
    /\ fs_touched = FALSE
    /\ last_write = [kind |-> "none", gap |-> debounce_ms, ok |-> TRUE,
                      signalled |-> FALSE]
    /\ burst_writes = -1
    /\ handled = NoHandled
    /\ patch = NoPatch
    /\ sync_log = NoSyncLog
    /\ probe = NoProbe

Init == InitOver(InitFiles)

(* ------------------------------------------------------------------ *)
(* synchronizer.rs: synchronize, one step per await                    *)
(* ------------------------------------------------------------------ *)

Exit(cause) ==
    /\ phase' = "exited"
    /\ exit_cause' = cause

(* lines 69-72: the listed ids that are inspected *)
RECURSIVE ListedIds(_)
ListedIds(listing) ==
    IF listing = <<>> THEN <<>>
    ELSE LET id == IF Head(listing).some THEN Head(listing).val ELSE <<>> IN
         (IF id = <<>> THEN <<>> ELSE <<id>>) \o ListedIds(Tail(listing))

(* lines 52-59 without the clear of lines 63-66 *)
SyncListNoClear ==
    /\ phase = "start"
    /\ \/ /\ Exit("list_error")
          /\ UNCHANGED <<sync_todo, active_containers, sync_log,
                   probe>>
       \/ \E junk \in SUBSET {None, Some(<<>>)} :
          \E listing \in Perms({Some(id) : id \in {i \in Ids : rt[i].running}} \cup junk) :
            /\ sync_todo' = ListedIds(listing)
            /\ UNCHANGED active_containers
            /\ sync_log' = [listed |-> ListedIds(listing), inspected |-> <<>>,
                            held |-> Keys(active_containers)]
            /\ phase' = "sync"
            /\ UNCHANGED exit_cause
    /\ UNCHANGED <<rt_vars, lock, hpc, cur, write_notify, wpc, timer, since_schedule,
                   lagged, hosts_file, write_enabled, hosts_file0, fs_touched,
                   last_write, burst_writes, handled, patch,
                   probe>>

(* lines 52-66 with the clear of lines 63-66 made before the listing *)
SyncListClearFirst ==
    /\ phase = "start"
    /\ active_containers' = <<>>
    /\ \/ /\ Exit("list_error")
          /\ UNCHANGED <<sync_todo, sync_log,
                   probe>>
       \/ \E junk \in SUBSET {None, Some(<<>>)} :
          \E listing \in Perms({Some(id) : id \in {i \in Ids : rt[i].running}} \cup junk) :
            /\ sync_todo' = ListedIds(listing)
            /\ sync_log' = [listed |-> ListedIds(listing), inspected |-> <<>>,
                            held |-> Keys(active_containers)]
            /\ phase' = "sync"
            /\ UNCHANGED exit_cause
    /\ UNCHANGED <<rt_vars, lock, hpc, cur, write_notify, wpc, timer, since_schedule,
                   lagged, hosts_file, write_enabled, hosts_file0, fs_touched,
                   last_write, burst_writes, handled, patch,
                   probe>>

(* lines 52-66: list the running containers, then clear the store *)
SyncList ==
    /\ phase = "start"
    /\ \/ /\ Exit("list_error")
          /\ UNCHANGED <<sync_todo, active_containers, sync_log,
                   probe>>
       \/ \E junk \in SUBSET {None, Some(<<>>)} :
          \E listing \in Perms({Some(id) : id \in {i \in Ids : rt[i].running}} \cup junk) :
            /\ sync_todo' = ListedIds(listing)
            /\ active_containers' = <<>>
            /\ sync_log' = [listed |-> ListedIds(listing), inspected |-> <<>>,
                            held |-> Keys(active_containers)]
            /\ phase' = "sync"
            /\ UNCHANGED exit_cause
    /\ UNCHANGED <<rt_vars, lock, hpc, cur, write_notify, wpc, timer, since_schedule,
                   lagged, hosts_file, write_enabled, hosts_file0, fs_touched,
                   last_write, burst_writes, handled, patch,
                   probe>>

(* lines 68-88 with the Err of inspect_container returned, as `?` would *)
SyncInspectAbort ==
    /\ phase = "sync"
    /\ sync_todo # <<>>
    /\ LET id == Head(sync_todo) IN
       \/ /\ UNCHANGED active_containers
          /\ sync_log' = [sync_log EXCEPT !.inspected =
                            Append(@, [id |-> id, ok |-> FALSE, info |-> None])]
          /\ Exit("inspect_error")
       \/ \E order \in Perms(Attached(id)) :
            LET info == extract_container_info(InspectResponse(id, order)) IN
            /\ sync_log' = [sync_log EXCEPT !.inspected =
                                Append(@, [id |-> id, ok |-> TRUE, info |-> info])]
            /\ IF info.some /\ has_exposed_ports(info.val)
               THEN \E pos \in 1..(Len(active_containers) + 1) :
                       active_containers' =
                            MapInsert(active_containers, id, info.val, pos)
               ELSE UNCHANGED active_containers
            /\ UNCHANGED <<phase, exit_cause>>
    /\ sync_todo' = Tail(sync_todo)
    /\ UNCHANGED <<rt_vars, lock, hpc, cur, write_notify, wpc,
                   timer, since_schedule, lagged, hosts_file, write_enabled,
                   hosts_file0, fs_touched, last_write, burst_writes, handled,
                   patch,
                   probe>>

(* lines 68-88: one iteration of the loop over the listed containers *)
SyncInspect ==
    /\ phase = "sync"
    /\ sync_todo # <<>>
    /\ LET id == Head(sync_todo) IN
       \/ /\ UNCHANGED active_containers       \* Err(e): warn
          /\ sync_log' = [sync_log EXCEPT !.inspected =
                            Append(@, [id |-> id, ok |-> FALSE, info |-> None])]
       \/ \E order \in Perms(Attached(id)) :
            LET info == extract_container_info(InspectResponse(id, order)) IN
            /\ sync_log' = [sync_log EXCEPT !.inspected =
                                Append(@, [id |-> id, ok |-> TRUE, info |-> info])]
            /\ IF info.some /\ has_exposed_ports(info.val)
               THEN \E pos \in 1..(Len(active_containers) + 1) :
                       active_containers' =
                            MapInsert(active_containers, id, info.val, pos)
               ELSE UNCHANGED active_containers
    /\ sync_todo' = Tail(sync_todo)
    /\ UNCHANGED <<rt_vars, phase, exit_cause, lock, hpc, cur, write_notify, wpc,
                   timer, since_schedule, lagged, hosts_file, write_enabled,
                   hosts_file0, fs_touched, last_write, burst_writes, handled,
                   patch,
                   probe>>

(* lines 90-92, and main.rs 133/188: the immediate write ends synchronize *)
SyncWrite ==
    /\ phase = "sync"
    /\ sync_todo = <<>>
    /\ \E io \in IoOutcomes :
        LET r == write_hosts_file_immediate(hosts_file, active_containers,
                                            write_enabled, io) IN
        /\ hosts_file' = r.file
        /\ fs_touched' = (fs_touched \/ r.fs)
        /\ last_write' = [kind |-> "immediate", gap |-> debounce_ms, ok |-> r.ok,
                      signalled |-> FALSE]
        /\ IF r.ok
           THEN phase' = "synced" /\ UNCHANGED exit_cause
           ELSE Exit("sync_write_error")
    /\ UNCHANGED <<rt_vars, sync_todo, active_containers, lock, hpc, cur, write_notify,
                   wpc, timer, since_schedule, lagged, write_enabled, hosts_file0,
                   burst_writes, handled, patch,
                   sync_log,
                   probe>>

(* main.rs 140-143, 195-198: --once *)
Once ==
    /\ phase = "synced"
    /\ Exit("once")
    /\ UNCHANGED <<rt_vars, sync_todo, active_containers, lock, hpc, cur, write_notify,
                   wpc, timer, since_schedule, lagged, hosts_file, write_enabled,
                   hosts_file0, fs_touched, last_write, burst_writes, handled,
                   patch, sync_log,
                   probe>>

(* listen_events, lines 123-133: the subscription opens and both branches of
   the select are polled for the first time *)
ListenEvents ==
    /\ phase = "synced"
    /\ phase' = "listening"
    /\ sync_log' = NoSyncLog
    /\ UNCHANGED <<rt_vars, exit_cause, sync_todo, active_containers, lock, hpc, cur,
                   write_notify, wpc, timer, since_schedule, lagged, hosts_file,
                   write_enabled, hosts_file0, fs_touched, last_write, burst_writes,
                   handled, patch,
                   probe>>

(* ------------------------------------------------------------------ *)
(* The task of listen_events: the event loop and process_pending_writes *)
(* are the two branches of one select, so one of them runs at a time   *)
(* and the other runs only when the first is at an await.              *)
(* ------------------------------------------------------------------ *)

(* write_hosts_file_immediate calls std::fs, which blocks: from its call to
   its return the thread runs nothing else, neither the event loop, the other
   branch of the select of lines 132-149, nor main's ctrl_c branch *)
TaskBlocked == wpc = "writing"

DebounceReady(w, n, t) ==
    \/ w = "idle" /\ n
    \/ w = "debounce" /\ (n \/ t = 0)
    \/ w = "writing"

(* the task has a step it can take without waiting for anything *)
Busy(h, w, n, t) == h \notin {"next", "inspect"} \/ DebounceReady(w, n, t)

(* a handler step leaves the lag as it is while work remains *)
LagAfter(h, w, n, t) == lagged /\ Busy(h, w, n, t)

Unwrap(opt) == IF opt.some THEN opt.val ELSE <<>>

(* lines 177-208 without the early return of lines 160-162 *)
EventClassAnyActor(action, actor_id) ==
    IF action \in {<<"start">>, <<"unpause">>, <<"connect">>} THEN "attach"
    ELSE IF action \in {<<"die">>, <<"stop">>, <<"kill">>, <<"pause">>,
                        <<"disconnect">>, <<"destroy">>} THEN "detach"
    ELSE "ignored"

(* lines 160-162 and the match of lines 177-208: what handle_event does with
   an event *)
EventClass(action, actor_id) ==
    IF actor_id = <<>> THEN "ignored"
    ELSE IF action \in {<<"start">>, <<"unpause">>, <<"connect">>} THEN "attach"
    ELSE IF action \in {<<"die">>, <<"stop">>, <<"kill">>, <<"pause">>,
                        <<"disconnect">>, <<"destroy">>} THEN "detach"
    ELSE "ignored"

(* lines 134-178, 194-195: take the next item of the stream and classify it *)
HandleTake ==
    /\ phase = "listening"
    /\ ~TaskBlocked
    /\ hpc = "next"
    /\ events # <<>>
    /\ events' = Tail(events)
    /\ \E item_action \in ActionsOf(Head(events).kind) :
       LET item == Head(events)
           action == Unwrap(item_action)
           actor_id == Unwrap(item.actor_id)
           start == [NoHandled EXCEPT !.action = action,
                                      !.actor_id = actor_id,
                                      !.had_record = ContainsKey(active_containers, actor_id),
                                      !.old = MapGet(active_containers, actor_id)]
       IN  IF ~item.ok
           THEN /\ handled' = [NoHandled EXCEPT !.class = "error"]
                /\ UNCHANGED <<hpc, cur, lock>>
           ELSE IF EventClass(action, actor_id) = "attach"
           THEN /\ hpc' = "inspect"
                /\ cur' = [actor_id |-> actor_id, info |-> None]
                /\ handled' = [start EXCEPT !.class = "attach"]
                /\ UNCHANGED lock
           ELSE IF EventClass(action, actor_id) = "detach"
           THEN /\ hpc' = "remove"
                /\ lock' = "events"
                /\ cur' = [actor_id |-> actor_id, info |-> None]
                /\ handled' = [start EXCEPT !.class = "detach"]
           ELSE /\ handled' = [start EXCEPT !.class = "ignored"]
                /\ UNCHANGED <<hpc, cur, lock>>
    /\ lagged' = LagAfter(hpc', wpc, write_notify, timer)
    /\ UNCHANGED <<rt, rt_steps, phase, exit_cause, sync_todo, active_containers,
                   write_notify, wpc, timer, since_schedule, hosts_file, write_enabled,
                   hosts_file0, fs_touched, last_write, burst_writes, patch,
                   sync_log,
                   probe>>

(* lines 178-187 with the Err of handle_event returned from the event loop,
   as `?` at line 137 would *)
HandleInspectFatal ==
    /\ phase = "listening"
    /\ ~TaskBlocked
    /\ hpc = "inspect"
    /\ \/ /\ hpc' = "next"
          /\ cur' = NoEvent
          /\ handled' = [handled EXCEPT !.class = "attach_error"]
          /\ Exit("event_error")
          /\ UNCHANGED lock
       \/ \E order \in Perms(Attached(cur.actor_id)) :
            LET info == extract_container_info(InspectResponse(cur.actor_id, order)) IN
            IF info.some /\ has_exposed_ports(info.val)
            THEN /\ hpc' = "insert"
                 /\ lock' = "events"
                 /\ cur' = [cur EXCEPT !.info = info]
                 /\ handled' = [handled EXCEPT !.info = info]
                 /\ UNCHANGED <<phase, exit_cause>>
            ELSE /\ hpc' = "next"
                 /\ cur' = NoEvent
                 /\ handled' = [handled EXCEPT !.class = "attach_ineligible"]
                 /\ UNCHANGED <<lock, phase, exit_cause>>
    /\ lagged' = LagAfter(hpc', wpc, write_notify, timer)
    /\ UNCHANGED <<rt_vars, sync_todo, active_containers,
                   write_notify, wpc, timer, since_schedule, hosts_file, write_enabled,
                   hosts_file0, fs_touched, last_write, burst_writes, patch,
                   sync_log,
                   probe>>

(* lines 178-187 with an ineligible container handled as a Detach event is:
   its record is removed and the removal signalled *)
HandleInspectDetaching ==
    /\ phase = "listening"
    /\ ~TaskBlocked
    /\ hpc = "inspect"
    /\ \/ /\ hpc' = "next"
          /\ cur' = NoEvent
          /\ handled' = [handled EXCEPT !.class = "attach_error"]
          /\ UNCHANGED lock
       \/ \E order \in Perms(Attached(cur.actor_id)) :
            LET info == extract_container_info(InspectResponse(cur.actor_id, order)) IN
            IF info.some /\ has_exposed_ports(info.val)
            THEN /\ hpc' = "insert"
                 /\ lock' = "events"
                 /\ cur' = [cur EXCEPT !.info = info]
                 /\ handled' = [handled EXCEPT !.info = info]
            ELSE /\ hpc' = "remove"
                 /\ lock' = "events"
                 /\ handled' = [handled EXCEPT !.class = "attach_ineligible"]
                 /\ UNCHANGED cur
    /\ lagged' = LagAfter(hpc', wpc, write_notify, timer)
    /\ UNCHANGED <<rt_vars, phase, exit_cause, sync_todo, active_containers,
                   write_notify, wpc, timer, since_schedule, hosts_file, write_enabled,
                   hosts_file0, fs_touched, last_write, burst_writes, patch,
                   sync_log,
                   probe>>

(* lines 178-187: the inspection answers; an eligible container takes the lock *)
HandleInspect ==
    /\ phase = "listening"
    /\ ~TaskBlocked
    /\ hpc = "inspect"
    /\ \/ /\ hpc' = "next"                       \* Err: handle_event returns it
          /\ cur' = NoEvent
          /\ handled' = [handled EXCEPT !.class = "attach_error"]
          /\ UNCHANGED lock
       \/ \E order \in Perms(Attached(cur.actor_id)) :
            LET info == extract_container_info(InspectResponse(cur.actor_id, order)) IN
            IF info.some /\ has_exposed_ports(info.val)
            THEN /\ hpc' = "insert"
                 /\ lock' = "events"
                 /\ cur' = [cur EXCEPT !.info = info]
                 /\ handled' = [handled EXCEPT !.info = info]
            ELSE /\ hpc' = "next"
                 /\ cur' = NoEvent
                 /\ handled' = [handled EXCEPT !.class = "attach_ineligible"]
                 /\ UNCHANGED lock
    /\ lagged' = LagAfter(hpc', wpc, write_notify, timer)
    /\ UNCHANGED <<rt_vars, phase, exit_cause, sync_todo, active_containers,
                   write_notify, wpc, timer, since_schedule, hosts_file, write_enabled,
                   hosts_file0, fs_touched, last_write, burst_writes, patch,
                   sync_log,
                   probe>>

(* lines 188-189: insert, drop(active) *)
HandleInsert ==
    /\ phase = "listening"
    /\ hpc = "insert"
    /\ lock = "events"
    /\ \E pos \in 1..(Len(active_containers) + 1) :
            active_containers' =
                MapInsert(active_containers, cur.actor_id, cur.info.val, pos)
    /\ lock' = "none"
    /\ hpc' = "signal"
    /\ lagged' = LagAfter(hpc', wpc, write_notify, timer)
    /\ UNCHANGED <<rt_vars, phase, exit_cause, sync_todo, cur, write_notify, wpc,
                   timer, since_schedule, hosts_file, write_enabled, hosts_file0,
                   fs_touched, last_write, burst_writes, handled, patch,
                   sync_log,
                   probe>>

(* lines 196-197 and 207: remove; the guard is dropped either way *)
HandleRemove ==
    /\ phase = "listening"
    /\ hpc = "remove"
    /\ lock = "events"
    /\ active_containers' = MapRemove(active_containers, cur.actor_id)
    /\ lock' = "none"
    /\ IF ContainsKey(active_containers, cur.actor_id)
       THEN hpc' = "signal" /\ UNCHANGED cur
       ELSE hpc' = "next" /\ cur' = NoEvent
    /\ lagged' = LagAfter(hpc', wpc, write_notify, timer)
    /\ UNCHANGED <<rt_vars, phase, exit_cause, sync_todo, write_notify, wpc, timer,
                   since_schedule, hosts_file, write_enabled, hosts_file0, fs_touched,
                   last_write, burst_writes, handled, patch,
                   sync_log,
                   probe>>

(* schedule_write without notify_one: the call is made and nothing is left
   for the debounce activity to find. *)
HandleSignalNoNotify ==
    /\ phase = "listening"
    /\ hpc = "signal"
    /\ write_notify' = write_notify
    /\ since_schedule' = 0
    /\ burst_writes' = burst_writes
    /\ handled' = [handled EXCEPT !.calls = @ + 1, !.signal_lock = lock]
    /\ last_write' = [last_write EXCEPT !.signalled = TRUE]
    /\ hpc' = "next"
    /\ cur' = NoEvent
    /\ lagged' = LagAfter(hpc', wpc, write_notify', timer)
    /\ UNCHANGED <<rt_vars, phase, exit_cause, sync_todo, active_containers, lock, wpc,
                   timer, hosts_file, write_enabled, hosts_file0, fs_touched,
                   patch,
                   sync_log,
                   probe>>

(* schedule_write, lines 95-97, called at line 190 or 205 *)
HandleSignal ==
    /\ phase = "listening"
    /\ hpc = "signal"
    /\ write_notify' = TRUE
    /\ since_schedule' = 0
    /\ burst_writes' =
            IF since_schedule < debounce_ms THEN burst_writes
            ELSE IF wpc = "idle" /\ ~write_notify THEN 0
            ELSE -1
    /\ handled' = [handled EXCEPT !.calls = @ + 1, !.signal_lock = lock]
    /\ last_write' = [last_write EXCEPT !.signalled = TRUE]
    /\ hpc' = "next"
    /\ cur' = NoEvent
    /\ lagged' = LagAfter(hpc', wpc, write_notify', timer)
    /\ UNCHANGED <<rt_vars, phase, exit_cause, sync_todo, active_containers, lock, wpc,
                   timer, hosts_file, write_enabled, hosts_file0, fs_touched,
                   patch,
                   sync_log,
                   probe>>

(* ------------------------------------------------------------------ *)
(* synchronizer.rs: process_pending_writes, one action per poll        *)
(* ------------------------------------------------------------------ *)

TaskAtAwait == phase = "listening" /\ hpc \in {"next", "inspect"} /\ ~TaskBlocked

(* line 102, then 107-111: the idle wait ends, the first sleep starts *)
PollIdle ==
    /\ TaskAtAwait
    /\ wpc = "idle"
    /\ write_notify
    /\ write_notify' = FALSE
    /\ wpc' = "debounce"
    /\ timer' = debounce_ms
    /\ lagged' = FALSE
    /\ UNCHANGED <<rt_vars, phase, exit_cause, sync_todo, active_containers, lock, hpc,
                   cur, since_schedule, hosts_file, write_enabled, hosts_file0,
                   fs_touched, last_write, burst_writes, handled, patch,
                   sync_log,
                   probe>>

(* lines 115-117, then 107-111: the select takes the notified branch and the
   loop starts a new sleep *)
PollNotified ==
    /\ TaskAtAwait
    /\ wpc = "debounce"
    /\ write_notify
    /\ write_notify' = FALSE
    /\ timer' = debounce_ms
    /\ lagged' = FALSE
    /\ UNCHANGED <<rt_vars, phase, exit_cause, sync_todo, active_containers, lock, hpc,
                   cur, wpc, since_schedule, hosts_file, write_enabled, hosts_file0,
                   fs_touched, last_write, burst_writes, handled, patch,
                   sync_log,
                   probe>>

(* lines 111-112 and 303-322: the select takes the sleep branch and calls
   write_hosts_file_immediate, which reads the store under the lock, drops
   the lock and goes on to the file *)
PollSleepHoldingLock ==
    /\ TaskAtAwait
    /\ wpc = "debounce"
    /\ timer = 0
    /\ wpc' = "writing"
    /\ lock' = "write"
    /\ last_write' = [kind |-> "debounced", gap |-> since_schedule, ok |-> TRUE,
                      signalled |-> FALSE]
    /\ lagged' = FALSE
    /\ UNCHANGED <<rt_vars, phase, exit_cause, sync_todo, active_containers, hpc, cur,
                   write_notify, timer, since_schedule, hosts_file, write_enabled,
                   hosts_file0, fs_touched, burst_writes, handled, patch, sync_log,
                   probe>>

(* lines 111-112 and 303-322: the select takes the sleep branch and calls
   write_hosts_file_immediate, which reads the store under the lock, drops
   the lock and goes on to the file *)
PollSleep ==
    /\ TaskAtAwait
    /\ wpc = "debounce"
    /\ timer = 0
    /\ wpc' = "writing"
    /\ lock' = "none"
    /\ last_write' = [kind |-> "debounced", gap |-> since_schedule, ok |-> TRUE,
                      signalled |-> FALSE]
    /\ lagged' = FALSE
    /\ UNCHANGED <<rt_vars, phase, exit_cause, sync_todo, active_containers, hpc, cur,
                   write_notify, timer, since_schedule, hosts_file, write_enabled,
                   hosts_file0, fs_touched, burst_writes, handled, patch, sync_log,
                   probe>>

(* lines 112-113 and 345-427: write_hosts_file_immediate returns; Ok breaks
   to the idle wait of line 102, which a notification still pending ends at
   once; an Err leaves process_pending_writes, listen_events and main
   (main.rs 206) *)
PollWritten ==
    /\ phase = "listening"
    /\ wpc = "writing"
    /\ \E io \in IoOutcomes :
        LET r == write_hosts_file_immediate(hosts_file, active_containers,
                                            write_enabled, io) IN
        /\ hosts_file' = r.file
        /\ fs_touched' = (fs_touched \/ r.fs)
        /\ last_write' = [last_write EXCEPT !.ok = r.ok]
        /\ burst_writes' = IF burst_writes >= 0 THEN burst_writes + 1 ELSE burst_writes
        /\ IF ~r.ok
           THEN /\ Exit("write_error")
                /\ UNCHANGED <<write_notify, wpc, timer>>
           ELSE /\ UNCHANGED <<phase, exit_cause>>
                /\ write_notify' = FALSE
                /\ wpc' = IF write_notify THEN "debounce" ELSE "idle"
                /\ timer' = IF write_notify THEN debounce_ms ELSE 0
    /\ lock' = "none"
    /\ lagged' = FALSE
    /\ UNCHANGED <<rt_vars, sync_todo, active_containers, hpc, cur,
                   since_schedule, write_enabled, hosts_file0, handled, patch,
                   sync_log,
                   probe>>

(* the clock; the task runs a ready step within one tick *)
Tick ==
    /\ phase = "listening"
    /\ ~(lagged /\ Busy(hpc, wpc, write_notify, timer))
    /\ timer > 0 \/ since_schedule < debounce_ms
    /\ timer' = IF timer > 0 THEN timer - 1 ELSE 0
    /\ since_schedule' = IF since_schedule < debounce_ms THEN since_schedule + 1
                         ELSE since_schedule
    /\ lagged' = Busy(hpc, wpc, write_notify, timer')
    /\ UNCHANGED <<rt_vars, phase, exit_cause, sync_todo, active_containers, lock, hpc,
                   cur, write_notify, wpc, hosts_file, write_enabled, hosts_file0,
                   fs_touched, last_write, burst_writes, handled, patch,
                   sync_log,
                   probe>>

(* lines 134, 146-147 with a write that is owed performed before
   listen_events returns *)
StreamClosedFlushing ==
    /\ phase = "listening"
    /\ ~TaskBlocked
    /\ hpc = "next"
    /\ events = <<>>
    /\ Exit("stream_closed")
    /\ LET owed == write_notify \/ wpc = "debounce"
           r == write_hosts_file_immediate(hosts_file, active_containers,
                                           write_enabled, "ok")
       IN  /\ hosts_file' = IF owed THEN r.file ELSE hosts_file
           /\ fs_touched' = (fs_touched \/ (owed /\ r.fs))
           /\ write_notify' = FALSE
           /\ wpc' = "idle"
    /\ UNCHANGED <<rt_vars, sync_todo, active_containers, lock, hpc, cur,
                   timer, since_schedule, lagged, write_enabled,
                   hosts_file0, last_write, burst_writes, handled,
                   patch, sync_log,
                   probe>>

(* lines 134, 146-147: the stream ends and listen_events returns Ok *)
StreamClosed ==
    /\ phase = "listening"
    /\ ~TaskBlocked
    /\ hpc = "next"
    /\ events = <<>>
    /\ Exit("stream_closed")
    /\ UNCHANGED <<rt_vars, sync_todo, active_containers, lock, hpc, cur, write_notify,
                   wpc, timer, since_schedule, lagged, hosts_file, write_enabled,
                   hosts_file0, fs_touched, last_write, burst_writes, handled,
                   patch, sync_log,
                   probe>>

(* ctrl_c taking effect while the task is inside write_hosts_file_immediate *)
ShutdownDuringWrite ==
    /\ phase = "listening"
    /\ TaskBlocked
    /\ Exit("ctrl_c")
    /\ UNCHANGED <<rt_vars, sync_todo, active_containers, lock, hpc, cur, write_notify,
                   wpc, timer, since_schedule, lagged, hosts_file, write_enabled,
                   hosts_file0, fs_touched, last_write, burst_writes, handled,
                   patch, sync_log,
                   probe>>

(* main.rs 153-156, 208-211: ctrl_c wins main's select while the task awaits *)
Shutdown ==
    /\ TaskAtAwait
    /\ Exit("ctrl_c")
    /\ UNCHANGED <<rt_vars, sync_todo, active_containers, lock, hpc, cur, write_notify,
                   wpc, timer, since_schedule, lagged, hosts_file, write_enabled,
                   hosts_file0, fs_touched, last_write, burst_writes, handled,
                   patch, sync_log,
                   probe>>

(* The whole program on its clock, against a runtime in which only the
   container IdA changes. *)
Next ==
    \/ RtStart(IdA)
    \/ RtStop(IdA)
    \/ \E net \in Networks : RtConnect(IdA, net)
    \/ \E net \in Networks : RtDisconnect(IdA, net)
    \/ RtOther
    \/ RtStreamError
    \/ SyncList
    \/ SyncInspect
    \/ SyncWrite
    \/ Once
    \/ ListenEvents
    \/ HandleTake
    \/ HandleInspect
    \/ HandleInsert
    \/ HandleRemove
    \/ HandleSignal
    \/ PollIdle
    \/ PollNotified
    \/ PollSleep
    \/ PollWritten
    \/ Tick
    \/ StreamClosed
    \/ Shutdown

InitTimed == Init /\ ~rt[IdB].running

Spec == InitTimed /\ [][Next]_vars

(* WF_vars(PollWritten) with its ENABLED written out: a blocking file call
   returns.  PollWritten is enabled exactly in the states below (its guard;
   every outcome of the file system gives it a step that changes wpc or
   phase). *)
WriteReturns ==
    \/ []<>(~(phase = "listening" /\ wpc = "writing"))
    \/ []<><<PollWritten>>_vars

(* The same program with its scheduling: the runtime polls the synchronizer's
   task whenever one of its futures is ready, a blocking file call returns,
   and time passes.  Nothing obliges the events to arrive, the stream to
   close or the operator to press ctrl-c. *)
Fairness ==
    /\ WF_vars(HandleTake)
    /\ WF_vars(HandleInspect)
    /\ WF_vars(HandleInsert)
    /\ WF_vars(HandleRemove)
    /\ WF_vars(HandleSignal)
    /\ WF_vars(PollIdle)
    /\ WF_vars(PollNotified)
    /\ WF_vars(PollSleep)
    /\ WriteReturns
    /\ WF_vars(Tick)

(* the hosts file as the program may find it: with a managed section, or
   with an end marker line that no start marker line precedes *)
LiveFiles ==
    { LOCALHOST \o <<NL>> \o START_TAG \o <<NL>> \o OLD_ENTRY \o <<NL>>
        \o END_TAG \o <<NL>> \o SERVER \o <<NL>>,
      LOCALHOST \o <<NL>> \o END_TAG \o <<NL>> }

(* the Sync command constructs the synchronizer write-enabled (main.rs 176-182) *)
InitLive ==
    /\ InitOver(LiveFiles)
    /\ ~rt[IdB].running
    /\ write_enabled

SpecLive == InitLive /\ [][Next]_vars /\ Fairness

(* The synchronizer without the clock: synchronize and the event loop against
   a runtime in which every container changes; no debounced write runs. *)
NextSync ==
    \/ \E id \in Ids : RtStart(id)
    \/ \E id \in Ids : RtStop(id)
    \/ \E id \in Ids, net \in Networks : RtConnect(id, net)
    \/ \E id \in Ids, net \in Networks : RtDisconnect(id, net)
    \/ RtOther
    \/ RtStreamError
    \/ SyncList
    \/ SyncInspect
    \/ SyncWrite
    \/ Once
    \/ ListenEvents
    \/ HandleTake
    \/ HandleInspect
    \/ HandleInsert
    \/ HandleRemove
    \/ HandleSignal
    \/ StreamClosed
    \/ Shutdown

SpecSync == Init /\ [][NextSync]_vars

(* ------------------------------------------------------------------ *)
(* write_hosts_file_immediate on its own, as the tests of synchronizer.rs *)
(* drive it: a Synchronizer is built over a hosts file, records are put    *)
(* into and taken out of active_containers, and the file is written.       *)
(* ------------------------------------------------------------------ *)

(* pieces a hosts file is made of, and how many of them *)
MaxFilePieces == 4

(* writes applied in one run *)
MaxPatchWrites == 2

FOREIGN == <<"x">>

PatchPieces ==
    { FOREIGN \o <<NL>>,
      FOREIGN \o <<CR>>,
      <<NL>>,
      START_TAG \o <<NL>>,
      <<SP>> \o START_TAG \o <<CR, NL>>,
      END_TAG \o <<NL>>,
      END_TAG }

RECURSIVE PatchFiles(_)
PatchFiles(n) ==
    IF n = 0 THEN {<<>>}
    ELSE LET shorter == PatchFiles(n - 1) IN
         shorter \cup {f \o piece : f \in shorter, piece \in PatchPieces}

(* the runtime plays no part: the tests never reach it *)
InitPatch ==
    /\ InitOver(PatchFiles(MaxFilePieces))
    /\ \A id \in Ids : ~rt[id].running
    /\ rt[IdA].nets[NetD] = "ip"
    /\ write_enabled

(* tests, seed_container: a running container with a global address *)
seed_container(active, id, name, ip, pos) ==
    MapInsert(active, id,
              [id |-> id, name |-> name, ip_address |-> Some(ip),
               networks |-> <<>>, domain_names |-> <<>>, running |-> TRUE],
              pos)

PatchSeed ==
    /\ phase = "start"
    /\ patch.writes < MaxPatchWrites
    /\ ~ContainsKey(active_containers, IdA)
    /\ \E pos \in 1..(Len(active_containers) + 1) :
            active_containers' =
                seed_container(active_containers, IdA, <<"nginx">>,
                               <<"172.17.0.2">>, pos)
    /\ UNCHANGED <<rt_vars, phase, exit_cause, sync_todo, lock, hpc, cur, write_notify,
                   wpc, timer, since_schedule, lagged, hosts_file, write_enabled,
                   hosts_file0, fs_touched, last_write, burst_writes, handled,
                   patch, sync_log,
                   probe>>

(* the store is emptied, as the tests of the empty section leave it *)
PatchClear ==
    /\ phase = "start"
    /\ patch.writes < MaxPatchWrites
    /\ active_containers # <<>>
    /\ active_containers' = <<>>
    /\ UNCHANGED <<rt_vars, phase, exit_cause, sync_todo, lock, hpc, cur, write_notify,
                   wpc, timer, since_schedule, lagged, hosts_file, write_enabled,
                   hosts_file0, fs_touched, last_write, burst_writes, handled,
                   patch, sync_log,
                   probe>>

(* one call of write_hosts_file_immediate on a file system that works *)
PatchWrite ==
    /\ phase = "start"
    /\ patch.writes < MaxPatchWrites
    /\ LET r == write_hosts_file_immediate(hosts_file, active_containers,
                                           write_enabled, "ok") IN
        /\ hosts_file' = r.file
        /\ fs_touched' = (fs_touched \/ r.fs)
        /\ last_write' = [kind |-> "immediate", gap |-> debounce_ms, ok |-> r.ok,
                      signalled |-> FALSE]
    /\ patch' = [writes |-> patch.writes + 1,
                 prev_file |-> hosts_file,
                 store |-> active_containers,
                 repeat |-> patch.writes > 0 /\ patch.store = active_containers]
    /\ UNCHANGED <<rt_vars, phase, exit_cause, sync_todo, active_containers, lock, hpc,
                   cur, write_notify, wpc, timer, since_schedule, lagged,
                   write_enabled, hosts_file0, burst_writes, handled, sync_log,
                   probe>>

NextPatch ==
    \/ PatchSeed
    \/ PatchClear
    \/ PatchWrite

SpecPatch == InitPatch /\ [][NextPatch]_vars

(* ------------------------------------------------------------------ *)
(* synchronize on its own, over a store that already holds a record, as *)
(* the tests seed one, against a runtime that changes meanwhile         *)
(* ------------------------------------------------------------------ *)

NextResync ==
    \/ PatchSeed
    \/ \E id \in Ids : RtStart(id)
    \/ \E id \in Ids : RtStop(id)
    \/ SyncList
    \/ SyncInspect
    \/ SyncWrite

SpecResync == Init /\ [][NextResync]_vars

(* ------------------------------------------------------------------ *)
(* extract_container_info and get_hostnames on their own: one record,   *)
(* extracted from an inspect response or built as the tests of types.rs *)
(* build a ContainerInfo, is given to get_hostnames.                    *)
(* ------------------------------------------------------------------ *)

MaxProbeNets == 2

ProbeName == <<"w">>
ALIAS == <<"a">>
GLOBAL_IP == <<"172.17.0.2">>

(* networks named net, ..._net, ...-net and one that merely ends with net *)
NetSD == <<"s", "-", "d">>
NetMD == <<"m", "d">>
ProbeNetNames == {NetD, NetPD, NetSD, NetMD}

ProbeAddress(network_name) == <<"ip.">> \o network_name

(* Option<Vec<String>> of EndpointSettings.aliases *)
ProbeAliasLists ==
    {None, Some(<<>>), Some(<<ALIAS>>), Some(<<ProbeName>>),
     Some(<<ALIAS, ProbeName>>), Some(<<ProbeName, ProbeName>>),
     Some(<<ALIAS, ALIAS>>)}

TOKEN_BARE == <<"x">>
TOKEN_NET == <<"d", ":", "y">>
TOKEN_NET2 == <<"m", "d", ":", "v">>

ProbeDomainLists ==
    {<<>>, <<TOKEN_BARE>>, <<TOKEN_NET>>, <<TOKEN_BARE, TOKEN_NET>>,
     <<TOKEN_NET, TOKEN_BARE>>, <<TOKEN_BARE, TOKEN_BARE>>,
     <<TOKEN_NET, TOKEN_NET2>>}

(* the entries of a map of at most n networks, in iteration order *)
RECURSIVE ProbeNets(_, _)
ProbeNets(n, alias_lists) ==
    IF n = 0 THEN {<<>>}
    ELSE LET shorter == ProbeNets(n - 1, alias_lists)
             more == {c \in shorter \X ProbeNetNames :
                        \A i \in 1..Len(c[1]) : c[1][i].name # c[2]}
         IN  shorter \cup
                {Append(c[1], [name |-> c[2],
                               ip_address |-> Some(ProbeAddress(c[2])),
                               aliases |-> aliases]) :
                    c \in more, aliases \in alias_lists}

(* ContainerInspectResponse of a running container *)
ProbeResponses ==
    {[id |-> Some(IdA),
      name |-> Some(<<"/">> \o ProbeName),
      state |-> Some([running |-> Some(TRUE)]),
      network_settings |-> Some([ports |-> None, networks |-> Some(nets)]),
      config |-> Some([env |-> Some(<<DOMAIN_NAME_PREFIX \o JoinWith(domains, <<",">>)>>),
                       labels |-> Some(None)])] :
        nets \in ProbeNets(MaxProbeNets, ProbeAliasLists),
        domains \in ProbeDomainLists}

(* tests of types.rs: a ContainerInfo literal *)
ProbeRecords ==
    {[id |-> IdA,
      name |-> ProbeName,
      ip_address |-> ip,
      networks |-> [i \in 1..Len(nets) |->
                        [name |-> nets[i].name,
                         ip_address |-> nets[i].ip_address.val,
                         aliases |-> nets[i].aliases.val]],
      domain_names |-> domains,
      running |-> TRUE] :
        ip \in {None, Some(GLOBAL_IP)},
        nets \in ProbeNets(MaxProbeNets, ProbeAliasLists \ {None}),
        domains \in ProbeDomainLists}

InitProbe ==
    /\ InitOver({<<>>})
    /\ \A id \in Ids : ~rt[id].running
    /\ rt[IdA].nets[NetD] = "ip"
    /\ ~write_enabled

(* synchronizer.rs 218-221: the response of inspect_container is extracted *)
ProbeInspect ==
    /\ probe.stage = "start"
    /\ \E response \in ProbeResponses :
            probe' = [stage |-> "record",
                      response |-> Some(response),
                      info |-> extract_container_info(response),
                      groups |-> <<>>]
    /\ UNCHANGED <<rt_vars, prog_vars_but_probe>>

(* tests of types.rs: the record is written out field by field *)
ProbeLiteral ==
    /\ probe.stage = "start"
    /\ \E info \in ProbeRecords :
            probe' = [stage |-> "record",
                      response |-> None,
                      info |-> Some(info),
                      groups |-> <<>>]
    /\ UNCHANGED <<rt_vars, prog_vars_but_probe>>

(* synchronizer.rs 313: info.get_hostnames(&self.tld) *)
ProbeHostnames ==
    /\ probe.stage = "record"
    /\ probe.info.some
    /\ probe' = [probe EXCEPT !.stage = "hostnames",
                              !.groups = get_hostnames(probe.info.val, tld)]
    /\ UNCHANGED <<rt_vars, prog_vars_but_probe>>

NextProbe ==
    \/ ProbeInspect
    \/ ProbeLiteral
    \/ ProbeHostnames

SpecProbe == InitProbe /\ [][NextProbe]_vars

(* ------------------------------------------------------------------ *)
(* Properties                                                          *)
(* ------------------------------------------------------------------ *)

(* every item the runtime put on the stream has been handled *)
EventsHandled == phase = "listening" /\ hpc = "next" /\ events = <<>>

(* C1: once the resync is done and every event delivered so far has been
   handled, a container id has a record in the State Store if and only if
   the runtime reports that container running with a network attachment
   that has a non-empty address. *)
C1_RecordIffRuntimeActive ==
    EventsHandled =>
        \A id \in Ids : ContainsKey(active_containers, id) <=> RtEligible(id)

(* C2: no debounced write starts earlier than debounce_ms after the most
   recent schedule_write call, whatever the interleaving of the calls with
   the timer. *)
C2_NoWriteBeforeWindow ==
    last_write.kind = "debounced" => last_write.gap >= debounce_ms

(* the debounce activity is idle and no write is owed *)
Quiescent == phase = "listening" /\ wpc = "idle" /\ ~write_notify

(* C3: the calls of one burst (each less than debounce_ms after the one
   before) produce exactly one debounced write: never a second one, and once
   the activity is idle again the burst has had its write, started no
   earlier than debounce_ms after the last call. *)
C3_OneWritePerBurst ==
    /\ burst_writes <= 1
    /\ Quiescent =>
        /\ burst_writes # 0
        /\ last_write.kind = "debounced" => last_write.gap >= debounce_ms

(* the text the lines make when each is written followed by a newline *)
RECURSIVE Flat(_)
Flat(lines) ==
    IF lines = <<>> THEN <<>> ELSE Head(lines) \o <<NL>> \o Flat(Tail(lines))

IsPrefix(p, s) == Len(p) <= Len(s) /\ SubSeq(s, 1, Len(p)) = p

IsSuffix(p, s) == Len(p) <= Len(s) /\ SubSeq(s, Len(s) - Len(p) + 1, Len(s)) = p

(* the last write read a file whose first start marker line precedes its
   first end marker line *)
PatchedOrderedPair ==
    /\ patch.writes > 0
    /\ LET lines == Lines(patch.prev_file)
           start_idx == Position(lines, START_TAG)
           end_idx == Position(lines, END_TAG)
       IN  start_idx > 0 /\ end_idx > 0 /\ start_idx < end_idx

(* C4: when the file read has a start marker line before its first end
   marker line, the write keeps every line before the start marker and every
   line after the end marker, unchanged and in order, at the head and at the
   tail of the output, and with managed lines to write the output is exactly
   the lines before, the start marker, the managed lines, the end marker and
   the lines after. *)
C4_OnlySectionReplaced ==
    PatchedOrderedPair =>
        LET lines == Lines(patch.prev_file)
            start_idx == Position(lines, START_TAG)
            end_idx == Position(lines, END_TAG)
            before == SubSeq(lines, 1, start_idx - 1)
            after == SubSeq(lines, end_idx + 1, Len(lines))
            entries == host_entries(patch.store, tld)
        IN  /\ IsPrefix(Flat(before), hosts_file)
            /\ IsSuffix(Flat(after), hosts_file)
            /\ entries # <<>> =>
                    hosts_file = Flat(before \o <<START_TAG>> \o entries
                                        \o <<END_TAG>> \o after)

(* a section between foreign lines has been replaced by new managed lines *)
C4_Witness ==
    /\ PatchedOrderedPair
    /\ patch.store # <<>>
    /\ LET lines == Lines(patch.prev_file) IN
        /\ Position(lines, START_TAG) > 1
        /\ Position(lines, END_TAG) < Len(lines)
        /\ Position(lines, END_TAG) > Position(lines, START_TAG) + 1

(* C5: a second write with the store unchanged leaves the file as the
   first write left it, whatever the file was before the first write. *)
C5_Idempotent ==
    (patch.writes >= 2 /\ patch.repeat) => hosts_file = patch.prev_file

(* C6: a debounced write that fails leaves the State Store as it was and the
   program listening, so that a later event can trigger a new write. *)
C6_FailedWriteKeepsRunning ==
    [][(/\ last_write'.kind = "debounced" /\ ~last_write'.ok
        /\ ~(last_write.kind = "debounced" /\ ~last_write.ok))
            => /\ active_containers' = active_containers
               /\ phase' = "listening"]_vars

(* C7: process_pending_writes does not return on its own: the program never
   stops because a debounced write failed. *)
C7_DebounceNeverReturns == exit_cause # "write_error"

(* C8: with write_enabled false the hosts file is never read or written, its
   content stays what it was at the start, and every
   write_hosts_file_immediate returns Ok. *)
C8_DryRunLeavesFile ==
    ~write_enabled =>
        /\ ~fs_touched
        /\ hosts_file = hosts_file0
        /\ last_write.ok

(* a dry run has come through the resync, an event and a debounced write *)
C8_Witness ==
    /\ ~write_enabled
    /\ handled.calls = 1
    /\ last_write.kind = "debounced"

AttachActions == {<<"start">>, <<"unpause">>, <<"connect">>}

DetachActions == {<<"die">>, <<"stop">>, <<"kill">>, <<"pause">>,
                  <<"disconnect">>, <<"destroy">>}

(* the records the store holds under a key *)
RecordsOf(active, key) ==
    LET under(e) == e.key = key IN
    [i \in 1..Len(SelectSeq(active, under)) |-> SelectSeq(active, under)[i].info]

(* C9: an event with action start, unpause or connect and a non-empty actor
   id makes handle_event inspect the actor; a container found running with a
   global address or at least one network is put into the store under the
   actor id, in place of any record already there, and schedule_write is then
   called exactly once, after the insertion is done and the lock is free. *)
C9_AttachInsertsThenSignals ==
    /\ hpc = "inspect" =>
            /\ handled.action \in AttachActions
            /\ handled.actor_id # <<>>
            /\ cur.actor_id = handled.actor_id
    /\ (/\ handled.class \notin {"none", "error"}
        /\ handled.action \in AttachActions
        /\ handled.actor_id # <<>>)
            => handled.class \in {"attach", "attach_error", "attach_ineligible"}
    /\ handled.class \in {"attach_error", "attach_ineligible"} => handled.calls = 0
    /\ (handled.class = "attach" /\ handled.info.some) =>
            /\ handled.info.val.running
            /\ handled.info.val.ip_address.some \/ handled.info.val.networks # <<>>
    /\ hpc = "insert" => lock = "events" /\ handled.calls = 0
    /\ (hpc = "signal" /\ handled.class = "attach") =>
            /\ lock = "none"
            /\ handled.calls = 0
            /\ RecordsOf(active_containers, handled.actor_id) = <<handled.info.val>>
    /\ (hpc = "next" /\ handled.class = "attach") =>
            /\ handled.calls = 1
            /\ handled.signal_lock = "none"
            /\ RecordsOf(active_containers, handled.actor_id) = <<handled.info.val>>

(* an attach event has replaced a record that was in the store *)
C9_Witness ==
    /\ hpc = "next"
    /\ handled.class = "attach"
    /\ handled.had_record
    /\ handled.calls = 1

(* C10: an event with action die, stop, kill, pause, disconnect or destroy
   makes handle_event remove the record under the actor id when there is one,
   leaving every other record, and call schedule_write if and only if a record
   was removed; for an id without a record the store and the notification
   stay as they are. *)
C10_DetachRemovesAndSignals ==
    [][/\ (/\ Len(events') < Len(events)
           /\ handled'.class # "error"
           /\ handled'.action \in DetachActions
           /\ handled'.actor_id # <<>>)
            => hpc' = "remove" /\ cur'.actor_id = handled'.actor_id
       /\ (hpc = "remove" /\ hpc' # "remove") =>
            /\ handled.action \in DetachActions
            /\ write_notify' = write_notify
            /\ IF cur.actor_id \in Keys(active_containers)
               THEN /\ Keys(active_containers') = Keys(active_containers) \ {cur.actor_id}
                    /\ Len(active_containers') = Len(active_containers) - 1
                    /\ Range(active_containers') \subseteq Range(active_containers)
                    /\ hpc' = "signal"
               ELSE /\ active_containers' = active_containers
                    /\ hpc' = "next"
                    /\ handled'.calls = 0
       /\ (hpc = "signal" /\ handled.class = "detach" /\ hpc' # "signal") =>
            /\ active_containers' = active_containers
            /\ write_notify'
            /\ handled'.calls = 1
            /\ hpc' = "next"]_vars

(* a detach event has removed one of two records and signalled *)
C10_Witness ==
    /\ hpc = "next"
    /\ handled.class = "detach"
    /\ handled.had_record
    /\ handled.calls = 1
    /\ active_containers # <<>>

(* C11: an event without an actor id (missing or empty), or with an action
   that is none of start, unpause, connect, die, stop, kill, pause,
   disconnect, destroy, leaves the State Store as it was, starts no
   inspection and calls no schedule_write. *)
C11_IgnoredEventChangesNothing ==
    [][(/\ Len(events') < Len(events)
        /\ handled'.class # "error"
        /\ \/ handled'.actor_id = <<>>
           \/ handled'.action \notin AttachActions \cup DetachActions)
            => /\ active_containers' = active_containers
               /\ write_notify' = write_notify
               /\ hpc' = "next"
               /\ lock' = lock
               /\ handled'.calls = 0]_vars

(* a start event that names no actor has been handled while the store held
   a record *)
C11_Witness ==
    /\ hpc = "next"
    /\ handled.class = "ignored"
    /\ handled.action \in AttachActions
    /\ handled.actor_id = <<>>
    /\ active_containers # <<>>

(* the inspections of the resync that succeeded and found the container
   running with a global address or at least one network *)
ResyncPassed ==
    {i \in 1..Len(sync_log.inspected) :
        LET e == sync_log.inspected[i] IN
        /\ e.ok
        /\ e.info.some
        /\ e.info.val.running
        /\ e.info.val.ip_address.some \/ e.info.val.networks # <<>>}

(* C12: when synchronize has returned Ok, every listed container with a
   non-empty id has been inspected, the State Store holds exactly the
   containers whose inspection succeeded and passed has_exposed_ports, each
   with the record inspected, nothing the store held before is left unless
   it is one of them, and one write has been made, at once and not through
   the debounce. *)
C12_ResyncStoreAndWrite ==
    /\ phase \in {"start", "sync"} => last_write.kind = "none"
    /\ phase = "synced" =>
        /\ [i \in 1..Len(sync_log.inspected) |-> sync_log.inspected[i].id]
                = sync_log.listed
        /\ <<>> \notin Range(sync_log.listed)
        /\ Keys(active_containers)
                = {sync_log.inspected[i].id : i \in ResyncPassed}
        /\ \A i \in ResyncPassed :
                RecordsOf(active_containers, sync_log.inspected[i].id)
                    = <<sync_log.inspected[i].info.val>>
        /\ last_write.kind = "immediate"
        /\ last_write.ok
        /\ ~write_notify /\ wpc = "idle" /\ timer = 0

(* a resync over a store that held a record of a container the runtime no
   longer lists has completed with another container in the store *)
C12_Witness ==
    /\ phase = "synced"
    /\ sync_log.held # {}
    /\ sync_log.held \cap Range(sync_log.listed) = {}
    /\ active_containers # <<>>

ResyncFailed == {i \in 1..Len(sync_log.inspected) : ~sync_log.inspected[i].ok}

(* C13: an inspection that fails during the resync does not end it: the
   container is left out of the State Store, the loop goes on through the
   remaining listed containers and inserts those that pass, and the
   immediate write is made. *)
C13_InspectFailureSkipsOne ==
    ResyncFailed # {} =>
        /\ phase \in {"sync", "synced"} =>
            /\ [i \in 1..Len(sync_log.inspected) |-> sync_log.inspected[i].id]
                    \o sync_todo = sync_log.listed
            /\ \A i \in ResyncFailed :
                    sync_log.inspected[i].id \notin Keys(active_containers)
            /\ \A i \in ResyncPassed :
                    sync_log.inspected[i].id \in Keys(active_containers)
        /\ phase = "synced" => last_write.kind = "immediate"
        /\ phase = "exited" =>
            /\ exit_cause = "sync_write_error"
            /\ last_write.kind = "immediate"

(* the first listed container could not be inspected, the second was
   inserted, and the resync has completed *)
C13_Witness ==
    /\ phase = "synced"
    /\ 1 \in ResyncFailed
    /\ 2 \in ResyncPassed
    /\ Len(active_containers) = 1

(* C14: an Err item of the event stream and an Err returned by handle_event
   (a failed inspection on an attach event) end neither the loop nor the
   program: the State Store and the notification stay as they were and the
   loop is back at the stream for the next item. *)
C14_EventErrorsNotFatal ==
    [][(\/ Len(events') < Len(events) /\ handled'.class = "error"
        \/ hpc = "inspect" /\ handled'.class = "attach_error")
            => /\ active_containers' = active_containers
               /\ write_notify' = write_notify
               /\ handled'.calls = 0
               /\ lock' = "none"
               /\ hpc' = "next"
               /\ phase' = "listening"]_vars

(* an inspection failed on an attach event, the store still holds its
   record and the next event waits on the stream *)
C14_Witness ==
    /\ phase = "listening"
    /\ hpc = "next"
    /\ handled.class = "attach_error"
    /\ active_containers # <<>>
    /\ events # <<>>

(* C15: the lock of the State Store is never held while a call to the
   runtime (list, inspect) or a read or write of the hosts file is in
   progress; it is held only around the insert and the remove of the map. *)
C15_NoIoUnderLock ==
    /\ phase \in {"start", "sync", "synced"} => lock = "none"
    /\ hpc = "inspect" => lock = "none"
    /\ wpc = "writing" => lock = "none"
    /\ lock # "none" => hpc \in {"insert", "remove"}

(* the debounced write is at the hosts file, in write-enabled mode, after
   it read a non-empty store under the lock *)
C15_Witness ==
    /\ wpc = "writing"
    /\ write_enabled
    /\ active_containers # <<>>
    /\ lock = "none"

(* C16: a file write does not block event processing: while the debounced
   write is reading or writing the hosts file, the event loop can take the
   next event of the stream. *)
C16_EventsNotBlockedByWrite ==
    (/\ phase = "listening"
     /\ wpc = "writing"
     /\ write_enabled
     /\ hpc = "next"
     /\ events # <<>>) => ENABLED HandleTake

(* C17: the full resync runs to its end, immediate write included, before
   the subscription to events is opened: until then no item is on the
   stream, no event has been handled and the debounce has neither been
   signalled nor started nor written; the event loop runs only after a
   resync whose write succeeded, never during one. *)
C17_ResyncBeforeEvents ==
    /\ (\/ phase \in {"start", "sync", "synced"}
        \/ exit_cause \in {"list_error", "sync_write_error", "once"})
            => /\ events = <<>>
               /\ handled = NoHandled
               /\ hpc = "next"
               /\ ~write_notify
               /\ wpc = "idle"
               /\ last_write.kind # "debounced"
    /\ phase \in {"start", "sync"} => last_write.kind = "none"
    /\ phase = "synced" => last_write.kind = "immediate" /\ last_write.ok
    /\ phase = "listening" => sync_todo = <<>> /\ last_write.kind # "none"
    /\ (handled # NoHandled \/ events # <<>> \/ last_write.kind = "debounced")
            => /\ phase \in {"listening", "exited"}
               /\ sync_todo = <<>>

(* the runtime changed while the resync ran, the resync is over and its
   write done, and the stream is still empty *)
C17_Witness ==
    /\ phase = "synced"
    /\ rt_steps > 0
    /\ rt[IdA].running
    /\ last_write.kind = "immediate"
    /\ events = <<>>

(* C18: when the file read has a start marker line before its first end
   marker line and there are no managed lines to write, the write removes
   both markers and the lines between them: the output is exactly the lines
   before the start marker followed by the lines after the end marker. *)
C18_EmptySectionRemoved ==
    (PatchedOrderedPair /\ host_entries(patch.store, tld) = <<>>) =>
        LET lines == Lines(patch.prev_file)
            start_idx == Position(lines, START_TAG)
            end_idx == Position(lines, END_TAG)
            before == SubSeq(lines, 1, start_idx - 1)
            after == SubSeq(lines, end_idx + 1, Len(lines))
        IN  hosts_file = Flat(before \o after)

(* the last write read a file without a start marker line that precedes
   its first end marker line *)
PatchedNoPair ==
    /\ patch.writes > 0
    /\ LET lines == Lines(patch.prev_file)
           start_idx == Position(lines, START_TAG)
           end_idx == Position(lines, END_TAG)
       IN  ~(start_idx > 0 /\ end_idx > 0 /\ start_idx < end_idx)

(* C19: when the file read has no valid ordered marker pair and there are
   managed lines to write, the output is every line of the file in order,
   then one blank line exactly when the file's last line is non-empty (none
   for an empty file or a file whose last line is blank), then the start
   marker, the managed lines and the end marker. *)
C19_AppendAfterExistingLines ==
    (PatchedNoPair /\ host_entries(patch.store, tld) # <<>>) =>
        LET lines == Lines(patch.prev_file)
            entries == host_entries(patch.store, tld)
            blank == IF lines # <<>> /\ lines[Len(lines)] # <<>>
                     THEN << <<>> >> ELSE <<>>
        IN  hosts_file = Flat(lines \o blank \o <<START_TAG>> \o entries
                                \o <<END_TAG>>)

(* the section was appended to a file that ended with a blank line after
   other lines, an end marker among them, so no blank line was added *)
C19_Witness ==
    /\ PatchedNoPair
    /\ patch.store # <<>>
    /\ LET lines == Lines(patch.prev_file) IN
        /\ Len(lines) >= 3
        /\ lines[Len(lines)] = <<>>
        /\ Position(lines, END_TAG) > 0
        /\ lines[1] = FOREIGN

(* C20: when the file read has no valid ordered marker pair and there are
   no managed lines to write, a write in write-enabled mode leaves the file
   byte for byte as it was, whatever its content: empty, or with a last line
   that has no newline after it. *)
C20_NothingToWriteKeepsFile ==
    (PatchedNoPair /\ write_enabled /\ host_entries(patch.store, tld) = <<>>)
        => hosts_file = patch.prev_file

(* a line without the carriage return that may end it *)
StripCR(line) ==
    IF line # <<>> /\ line[Len(line)] = CR
    THEN SubSeq(line, 1, Len(line) - 1) ELSE line

(* the lines from the i-th on that are no marker lines and do not lie
   between a start marker line and the first end marker line after it *)
RECURSIVE ForeignFrom(_, _)
ForeignFrom(lines, i) ==
    IF i > Len(lines) THEN <<>>
    ELSE IF Trim(lines[i]) = START_TAG
    THEN LET end == PositionFrom(lines, END_TAG, i + 1) IN
         IF end > 0 THEN ForeignFrom(lines, end + 1) ELSE ForeignFrom(lines, i + 1)
    ELSE IF Trim(lines[i]) = END_TAG THEN ForeignFrom(lines, i + 1)
    ELSE <<StripCR(lines[i])>> \o ForeignFrom(lines, i + 1)

RECURSIVE IsSubsequence(_, _)
IsSubsequence(a, b) ==
    IF a = <<>> THEN TRUE
    ELSE IF b = <<>> THEN FALSE
    ELSE IF Head(a) = Head(b) THEN IsSubsequence(Tail(a), Tail(b))
    ELSE IsSubsequence(a, Tail(b))

(* C21: whatever the initial file and whatever the stores of the writes,
   every line of the initial file outside a start marker and the end marker
   that closes it is still in the file after every write, in its original
   relative order (marker lines themselves and a final carriage return are
   left out of the comparison). *)
C21_ForeignLinesKept ==
    patch.writes > 0 =>
        LET now == Lines(hosts_file) IN
        IsSubsequence(ForeignFrom(Lines(hosts_file0), 1),
                      [i \in 1..Len(now) |-> StripCR(now[i])])

(* the positions of the lines that are the marker tag once trimmed *)
MarkerLines(lines, tag) == {i \in 1..Len(lines) : Trim(lines[i]) = tag}

(* C22: after every write, whatever the initial file, the file has at most
   one start marker line and at most one end marker line, and when it has
   both the start marker comes first. *)
C22_OneManagedRegion ==
    patch.writes > 0 =>
        LET lines == Lines(hosts_file)
            starts == MarkerLines(lines, START_TAG)
            ends == MarkerLines(lines, END_TAG)
        IN  /\ Cardinality(starts) <= 1
            /\ Cardinality(ends) <= 1
            /\ \A i \in starts, j \in ends : i < j

(* C23: every record in the State Store was found running with a global
   address or at least one network: a record with running false is never
   in the store, whatever networks it has. *)
C23_StoredRecordsRunning ==
    \A i \in 1..Len(active_containers) :
        LET info == active_containers[i].info IN
        /\ info.running
        /\ info.ip_address.some \/ info.networks # <<>>

(* an attach event for a stopped container that still has a network address
   was handled and put no record into the store, which holds another one *)
C23_Witness ==
    /\ hpc = "next"
    /\ handled.class = "attach_ineligible"
    /\ handled.actor_id = IdA
    /\ ~rt[IdA].running
    /\ \E net \in Networks : rt[IdA].nets[net] = "ip"
    /\ Keys(active_containers) = {IdB}

(* C24: the State Store holds at most one record per container id, each
   under the id it carries, and once an attach event has inserted, the
   record under the actor id is the newly inspected one, whole, whatever
   record was there before. *)
C24_OneRecordReplacedWhole ==
    /\ \A i, j \in 1..Len(active_containers) :
            active_containers[i].key = active_containers[j].key => i = j
    /\ \A i \in 1..Len(active_containers) :
            active_containers[i].info.id = active_containers[i].key
    /\ (hpc \in {"signal", "next"} /\ handled.class = "attach") =>
            /\ handled.info.some
            /\ RecordsOf(active_containers, handled.actor_id) = <<handled.info.val>>

(* an attach event has replaced a record with one network by the newly
   inspected record, whose networks are others *)
C24_Witness ==
    /\ hpc = "next"
    /\ handled.class = "attach"
    /\ handled.old.some
    /\ handled.old.val.networks # handled.info.val.networks
    /\ Len(handled.old.val.networks) = 1
    /\ RecordsOf(active_containers, handled.actor_id) = <<handled.info.val>>

(* how many times item occurs in the sequence *)
Occurrences(items, item) == Cardinality({k \in 1..Len(items) : items[k] = item})

(* C25: in every record extract_container_info produces, the alias list of
   every network holds the container's own name exactly once, whatever
   alias list the runtime reported. *)
C25_AliasesHoldNameOnce ==
    (probe.response.some /\ probe.info.some) =>
        \A i \in 1..Len(probe.info.val.networks) :
            Occurrences(probe.info.val.networks[i].aliases, probe.info.val.name) = 1

(* C26: for a record with a global address the first group get_hostnames
   emits is the global address with name+tld followed by every domain token
   as it stands and in order, tokens net:host included, and no other group
   has that address; with no network and no token the result is that one
   group holding name+tld alone. *)
C26_GlobalGroupFirst ==
    (probe.stage = "hostnames" /\ probe.info.val.ip_address.some) =>
        LET info == probe.info.val
            groups == probe.groups
        IN  /\ groups # <<>>
            /\ groups[1] = <<info.ip_address.val,
                             <<info.name \o tld>> \o info.domain_names>>
            /\ \A k \in 2..Len(groups) : groups[k][1] # info.ip_address.val
            /\ (info.networks = <<>> /\ info.domain_names = <<>>) =>
                    groups = << <<info.ip_address.val, <<info.name \o tld>>>> >>

(* a record with a global address, two networks and the tokens d:y and x
   has been given to get_hostnames *)
C26_Witness ==
    /\ probe.stage = "hostnames"
    /\ probe.info.val.ip_address.some
    /\ Len(probe.info.val.networks) = 2
    /\ probe.info.val.domain_names = <<TOKEN_NET, TOKEN_BARE>>
    /\ Len(probe.groups) = 3

(* the group get_hostnames emitted for the i-th network of the record *)
ProbeGroupOf(i) ==
    probe.groups[i + (IF probe.info.val.ip_address.some THEN 1 ELSE 0)]

(* network_name is net, or net after a "_" or a "-" *)
NetworkNamed(network_name, net) ==
    \/ network_name = net
    \/ /\ Len(network_name) > Len(net)
       /\ SubSeq(network_name, Len(network_name) - Len(net) + 1, Len(network_name)) = net
       /\ network_name[Len(network_name) - Len(net)] \in {"_", "-"}

(* C27: a token net:hostname puts hostname into the group of a network
   exactly when the network is named net or its name ends with _net or
   -net; a network whose name only ends with net gets nothing, and with
   several networks each token goes to the networks it matches alone. *)
C27_NetworkTokenMatching ==
    probe.stage = "hostnames" =>
        LET info == probe.info.val IN
        /\ Len(probe.groups) = Len(info.networks)
                                + (IF info.ip_address.some THEN 1 ELSE 0)
        /\ \A i \in 1..Len(info.networks), t \in 1..Len(info.domain_names) :
                LET domain == info.domain_names[t]
                    colon == IndexFrom(domain, ":", 1)
                    net == SubSeq(domain, 1, colon - 1)
                    hostname == SubSeq(domain, colon + 1, Len(domain))
                IN  colon > 0 =>
                        Occurrences(ProbeGroupOf(i)[2], hostname)
                            = IF NetworkNamed(info.networks[i].name, net) THEN 1 ELSE 0

(* the tokens d:y and md:v were given with the networks md and p_d: y is
   in the group of p_d alone and v in the group of md alone *)
C27_Witness ==
    /\ probe.stage = "hostnames"
    /\ probe.info.val.domain_names = <<TOKEN_NET, TOKEN_NET2>>
    /\ Len(probe.info.val.networks) = 2
    /\ probe.info.val.networks[1].name = NetMD
    /\ probe.info.val.networks[2].name = NetPD
    /\ Occurrences(ProbeGroupOf(1)[2], <<"v">>) = 1
    /\ Occurrences(ProbeGroupOf(1)[2], <<"y">>) = 0
    /\ Occurrences(ProbeGroupOf(2)[2], <<"y">>) = 1
    /\ Occurrences(ProbeGroupOf(2)[2], <<"v">>) = 0

(* C28: a token without a colon is appended to the group of every network
   exactly when the record has no global address; with a global address it
   is in the group of that address and in no group of a network. *)
C28_BareTokenFanOut ==
    probe.stage = "hostnames" =>
        LET info == probe.info.val IN
        \A t \in 1..Len(info.domain_names) :
            LET domain == info.domain_names[t] IN
            IndexFrom(domain, ":", 1) = 0 =>
                /\ \A i \in 1..Len(info.networks) :
                        Occurrences(ProbeGroupOf(i)[2], domain)
                            = IF info.ip_address.some THEN 0
                              ELSE Occurrences(info.domain_names, domain)
                /\ info.ip_address.some =>
                        Occurrences(probe.groups[1][2], domain)
                            = Occurrences(info.domain_names, domain)

(* a record with a global address, two networks and the token x: x is in
   the first group and in neither of the other two *)
C28_Witness ==
    /\ probe.stage = "hostnames"
    /\ probe.info.val.ip_address.some
    /\ Len(probe.info.val.networks) = 2
    /\ probe.info.val.domain_names = <<TOKEN_BARE, TOKEN_NET>>
    /\ Occurrences(probe.groups[1][2], TOKEN_BARE) = 1
    /\ Occurrences(probe.groups[2][2], TOKEN_BARE) = 0
    /\ Occurrences(probe.groups[3][2], TOKEN_BARE) = 0

(* C29: get_hostnames emits one group for each network of the record, after
   the group of the global address if there is one; the group has the
   address of the network and its hostnames begin with name.network followed
   by alias.network for every alias in the order of the aliases; no group
   is empty, so every group gives one managed line with a hostname. *)
C29_OneGroupPerNetwork ==
    probe.stage = "hostnames" =>
        LET info == probe.info.val IN
        /\ Len(probe.groups) = Len(info.networks)
                                + (IF info.ip_address.some THEN 1 ELSE 0)
        /\ \A i \in 1..Len(info.networks) :
                LET network == info.networks[i]
                    hosts == ProbeGroupOf(i)[2]
                    named == <<info.name \o <<".">> \o network.name>>
                                \o [k \in 1..Len(network.aliases) |->
                                        network.aliases[k] \o <<".">> \o network.name]
                IN  /\ ProbeGroupOf(i)[1] = network.ip_address
                    /\ IsPrefix(named, hosts)
        /\ \A k \in 1..Len(probe.groups) : probe.groups[k][2] # <<>>
        /\ Len(GroupLines(probe.groups)) = Len(probe.groups)

(* a record with a global address and two networks, the first with the
   aliases a and w, gave three groups *)
C29_Witness ==
    /\ probe.stage = "hostnames"
    /\ probe.info.val.ip_address.some
    /\ Len(probe.info.val.networks) = 2
    /\ probe.info.val.networks[1].aliases = <<ALIAS, ProbeName>>
    /\ probe.info.val.domain_names = <<TOKEN_NET>>
    /\ Len(probe.groups) = 3

(* C30: for every record extract_container_info builds, no hostname occurs
   more than once within one group get_hostnames emits. *)
C30_GroupsHaveNoDuplicates ==
    (probe.stage = "hostnames" /\ probe.response.some) =>
        \A k \in 1..Len(probe.groups) :
            \A h \in Range(probe.groups[k][2]) :
                Occurrences(probe.groups[k][2], h) = 1

(* C31: after a debounced write the debounce activity writes again only
   once schedule_write has been called again, and while it is idle with no
   call made the file keeps the content of the last write. *)
C31_NoWriteWithoutNewSignal ==
    [][/\ (Quiescent /\ write_notify' = write_notify)
            => hosts_file' = hosts_file /\ wpc' = "idle"
       /\ (wpc # "writing" /\ wpc' = "writing" /\ last_write.kind = "debounced")
            => last_write.signalled]_vars

(* C32: ctrl_c does not abort a write in progress: the program never stops
   on ctrl_c inside write_hosts_file_immediate or with the lock held, and the
   file it leaves is the file it found or the complete output of a write,
   never a file between the read and the write of one cycle. *)
C32_ShutdownNotDuringWrite ==
    exit_cause = "ctrl_c" =>
        /\ wpc # "writing"
        /\ lock = "none"
        /\ last_write.ok
        /\ \/ hosts_file = hosts_file0
           \/ /\ write_enabled
              /\ hosts_file # <<>>
              /\ hosts_file[Len(hosts_file)] = NL

(* ctrl_c stopped the program after a debounced write had changed the file *)
C32_Witness ==
    /\ exit_cause = "ctrl_c"
    /\ last_write.kind = "debounced"
    /\ write_enabled
    /\ hosts_file # hosts_file0

(* C33: no signal is lost.  Unless the process ends (shutdown, stream closed
   or a failed write, the three ways out of the listening phase), every
   schedule_write call is followed by a completed debounced write that
   started, and so took its snapshot of the store, after the call. *)
C33_EverySignalServed ==
    (phase = "listening" /\ last_write.signalled)
        ~> \/ phase = "exited"
           \/ /\ last_write.kind = "debounced"
              /\ ~last_write.signalled
              /\ wpc # "writing"

C33_Witness ==
    /\ phase = "listening"
    /\ last_write.kind = "debounced"
    /\ ~last_write.signalled
    /\ wpc = "debounce"
    /\ handled.calls > 0

(* the managed sections of a file: each start marker line with the first end
   marker line after it, as <<start, end>> positions in the lines *)
Sections(lines) ==
    {p \in MarkerLines(lines, START_TAG) \X MarkerLines(lines, END_TAG) :
        /\ p[1] < p[2]
        /\ \A k \in MarkerLines(lines, END_TAG) : ~(p[1] < k /\ k < p[2])}

(* the file has a managed section exactly when the store yields lines, and
   what stands between the markers is those lines *)
FileConsistent ==
    LET entries == host_entries(active_containers, tld)
        lines == Lines(hosts_file)
    IN  /\ (Sections(lines) = {}) <=> (entries = <<>>)
        /\ \A p \in Sections(lines) : SubSeq(lines, p[1] + 1, p[2] - 1) = entries

(* C34: eventual file consistency.  While the process runs, once the events
   that arrived are handled the debounce activity comes to rest with the
   managed section of the file equal to the lines of the store as the last
   event left it, and with no section when the store yields no lines. *)
C34_FileFollowsStore ==
    (phase = "listening")
        ~> \/ phase = "exited"
           \/ /\ EventsHandled
              /\ Quiescent
              /\ FileConsistent

(* C35: an Attach event whose inspection succeeds and yields an ineligible
   container leaves the State Store as it was, a record stored for that id
   included, takes no lock and calls no schedule_write: from the inspection
   until the next event is taken nothing of the store or the signal
   changes. *)
C35_IneligibleAttachChangesNothing ==
    [][handled'.class = "attach_ineligible"
            => /\ active_containers' = active_containers
               /\ MapGet(active_containers', handled'.actor_id) = handled'.old
               /\ write_notify' = write_notify
               /\ hpc' = "next"
               /\ lock' = lock
               /\ handled'.calls = 0]_vars

(* a start event of a container that is no longer running has been handled
   and the record stored for it is still in the store *)
C35_Witness ==
    /\ hpc = "next"
    /\ handled.class = "attach_ineligible"
    /\ handled.action \in AttachActions
    /\ handled.old.some
    /\ ~rt[handled.actor_id].running
    /\ MapGet(active_containers, handled.actor_id) = handled.old

(* C36: when the event stream closes, listen_events returns Ok at once and
   the debounce activity goes with it: the step that closes the stream
   performs no write, and no write is performed afterwards, so a write that
   was owed is never made. *)
C36_StreamCloseDropsOwedWrite ==
    [][/\ (phase = "listening" /\ exit_cause' = "stream_closed")
            => /\ phase' = "exited"
               /\ hosts_file' = hosts_file
               /\ fs_touched' = fs_touched
               /\ last_write' = last_write
       /\ exit_cause = "stream_closed"
            => /\ phase' = "exited"
               /\ exit_cause' = "stream_closed"
               /\ hosts_file' = hosts_file
               /\ last_write' = last_write]_vars

(* the stream closed while a write was owed, and the file is left without
   the last change of the store *)
C36_Witness ==
    /\ exit_cause = "stream_closed"
    /\ write_enabled
    /\ write_notify \/ wpc = "debounce"
    /\ last_write.signalled
    /\ ~FileConsistent

(* C37: when the listing fails synchronize returns the error with the State
   Store as it was, not cleared, and with no write made; when the immediate
   write fails synchronize returns the error and the State Store keeps what
   the resync put in it: the inspected containers that passed, each with its
   record. *)
C37_ResyncErrorsKeepStore ==
    [][/\ (exit_cause = "" /\ exit_cause' = "list_error")
            => /\ phase' = "exited"
               /\ active_containers' = active_containers
               /\ hosts_file' = hosts_file
               /\ fs_touched' = fs_touched
               /\ last_write'.kind = "none"
       /\ (exit_cause = "" /\ exit_cause' = "sync_write_error")
            => /\ phase' = "exited"
               /\ last_write'.kind = "immediate"
               /\ ~last_write'.ok
               /\ active_containers' = active_containers
               /\ Keys(active_containers')
                       = {sync_log.inspected[i].id : i \in ResyncPassed}
               /\ \A i \in ResyncPassed :
                       RecordsOf(active_containers', sync_log.inspected[i].id)
                           = <<sync_log.inspected[i].info.val>>]_vars

(* the listing failed over a store that held a record, and the record is
   still there *)
C37_Witness ==
    /\ exit_cause = "list_error"
    /\ ContainsKey(active_containers, IdA)
    /\ ~fs_touched

(* the lines of a file outside its managed section *)
OutsideSection(content) ==
    LET lines == Lines(content)
        start_idx == Position(lines, START_TAG)
        end_idx == Position(lines, END_TAG)
    IN  IF start_idx > 0 /\ end_idx > 0 /\ start_idx < end_idx
        THEN SubSeq(lines, 1, start_idx - 1) \o SubSeq(lines, end_idx + 1, Len(lines))
        ELSE lines

NoMarkerLines(content) ==
    /\ MarkerLines(Lines(content), START_TAG) = {}
    /\ MarkerLines(Lines(content), END_TAG) = {}

(* C38: starting from a file with no marker lines, after every write of a
   run of writes with and without managed lines, the lines outside the
   managed section are the original lines in order followed by at most one
   added blank line. *)
C38_AtMostOneBlankAdded ==
    (NoMarkerLines(hosts_file0) /\ patch.writes > 0) =>
        LET original == Lines(hosts_file0)
            outside == OutsideSection(hosts_file)
        IN  outside = original \/ outside = original \o << <<>> >>

====
